---- MODULE Spec2Model ----
(***************************************************************************)
(* A verification model of TwitchDropsMiner's orchestration core:          *)
(* the pub/sub pool (websocket.py), one pub/sub connection (websocket.py), *)
(* the main state machine and the watch loop (client.py, streams.py), the  *)
(* inventory engine (drops.py) and the auth state (auth.py).               *)
(*                                                                         *)
(* The client object aliases the managers' state (client.py 100-103), so   *)
(* Twitch.X and StreamsManager.X / DropsManager.X are one variable here.   *)
(* Every component has its own group of variables and its own              *)
(* specification; a specification leaves the other groups untouched.       *)
(***************************************************************************)
EXTENDS Integers, Sequences, FiniteSets, TLC

Min(a, b) == IF a <= b THEN a ELSE b
Max(a, b) == IF a >= b THEN a ELSE b

\* ------------------------------------------------------------------------
\* State
\* ------------------------------------------------------------------------

\* WebsocketPool
VARIABLES
    websockets,   \* WebsocketPool.websockets: sequence of each connection's topic table
    poolCall      \* the last pool call: its operation, argument and whether it raised

poolVars == <<websockets, poolCall>>

\* One Websocket and its handler task (Websocket._handle)
VARIABLES
    wsPc,                 \* position of the handler task
    topics,               \* Websocket.topics (its keys)
    submitted,            \* Websocket._submitted
    topics_changed,       \* Websocket._topics_changed
    reconnect_requested,  \* Websocket._reconnect_requested
    next_ping,            \* Websocket._next_ping
    max_pong,             \* Websocket._max_pong
    now,                  \* time()
    current,              \* _handle_topics: local `current`
    delta,                \* _handle_topics: local `removed`, then `added`
    pingPending,          \* server side: a PING of this connection is unanswered
    pongQueued,           \* a PONG is waiting in the socket to be received
    wsHist                \* observations of the current connection (see WsHist0)

connVars == <<wsPc, topics, submitted, topics_changed, reconnect_requested,
              next_ping, max_pong, now, current, delta, pingPending,
              pongQueued, wsHist>>

\* Twitch: the main state machine (Twitch._run) and what it works on
VARIABLES
    state,          \* Twitch._state
    state_change,   \* Twitch._state_change: the event's flag
    wake,           \* the main loop's pending wait() has been released by a set()
    mainPc,         \* position of the main loop
    full_cleanup,   \* _run: local full_cleanup
    wanted_games,   \* Twitch.wanted_games: game -> priority key
    inventory,      \* Twitch.inventory: sequence of campaigns
    priority,       \* settings.priority: the user's priority list
    channels,       \* Twitch.channels: ordered registry of channels
    watching,       \* Twitch.watching_channel: the watched channel or None
    tagged,         \* ChannelList: ids of the rows tagged "watching"
    subscribed,     \* channel topics held by the pub/sub pool
    mainHist        \* what the main loop and the other tasks did last

mainVars == <<state, state_change, wake, mainPc, full_cleanup, wanted_games,
              inventory, priority, channels, watching, tagged, subscribed, mainHist>>

\* DropsManager: fetch_inventory and its readers
VARIABLES
    invPc,       \* position of fetch_inventory
    campaigns,   \* fetch_inventory: local campaigns, the list being installed
    drops,       \* DropsManager._drops (its keys)
    invPrev,     \* the inventory list before the rebuild in progress started
    invObs       \* what the last reader found

invVars == <<invPc, campaigns, drops, invPrev, invObs>>

\* _AuthState and the tasks calling validate()
VARIABLES
    authPc,        \* position of each task in validate()
    locked,        \* _AuthState._lock is held
    lockQueue,     \* tasks waiting for the lock, in order of arrival
    session_id,    \* _AuthState.session_id
    device_id,     \* _AuthState.device_id
    access_token,  \* _AuthState.access_token
    user_id,       \* _AuthState.user_id
    jarToken,      \* the auth-token cookie of the session's cookie jar
    attempt,       \* _validate: local attempt of each task
    logged_in,     \* _AuthState._logged_in
    authSeen,      \* the attributes each task found when its call returned
    authWaited,    \* the task's current call had to wait for the lock
    loginRuns      \* login sequences run to their end

authVars == <<authPc, locked, lockQueue, session_id, device_id, access_token,
              user_id, jarToken, attempt, logged_in, authSeen, authWaited, loginRuns>>

\* Twitch._watch_loop
VARIABLES
    watchPc,           \* position of the watch loop
    watching_restart,  \* Twitch._watching_restart: the event's flag
    watchClock,        \* time() - last_watch, or the time slept after a failed watch
    watchChannel,      \* _watch_loop: local channel
    watchHist          \* observations of the current cycle (see WatchHist0)

watchVars == <<watchPc, watching_restart, watchClock, watchChannel, watchHist>>

\* Twitch.request and Twitch.gql_request
VARIABLES
    reqPc,             \* position of request
    return_error,      \* request: argument return_error
    invalidate_after,  \* request: argument invalidate_after (empty for None)
    close_requested,   \* GUIManager._close_requested
    reqNow,            \* datetime.now()
    reqStatus,         \* status of the last response (0: none)
    reqError,          \* error raised by the last attempt
    reqResult,         \* what request gave its caller
    reqHist,           \* observations of the current call (see ReqHist0)
    gqlPc,             \* position of gql_request
    gqlBatch,          \* gql_request: response_list of this pass of its loop
    gqlOutcome         \* gql_request: what the last pass of its loop led to

reqVars == <<reqPc, return_error, invalidate_after, close_requested, reqNow,
             reqStatus, reqError, reqResult, reqHist, gqlPc, gqlBatch, gqlOutcome>>

\* Twitch._maintenance_task and the end of DropsManager.fetch_inventory
VARIABLES
    mntPc,             \* Twitch._mnt_task: "none", "created", "returned", "raised"
    mntNow,            \* datetime.now(timezone.utc), in half hours
    mntTriggers,       \* DropsManager._mnt_triggers
    mntRequested,      \* states the current task passed to change_state
    mntCancelled,      \* whether the last fetch_inventory cancelled a task
    mntNextPeriod      \* next_period of the task that ran last: its reload mark

mntVars == <<mntPc, mntNow, mntTriggers, mntRequested, mntCancelled, mntNextPeriod>>

\* The settings the main loop reads
VARIABLES
    priority_algorithm \* Settings.priority_algorithm

algoVars == <<priority_algorithm>>

\* DropsManager._merge_data
VARIABLES
    mergePrimary,      \* _merge_data: argument primary_data
    mergeSecondary,    \* _merge_data: argument secondary_data
    merged             \* _merge_data: whether it was called, raised, and its result

mergeVars == <<mergePrimary, mergeSecondary, merged>>

\* The clock GAMES_UPDATE reads
VARIABLES
    gamesNow           \* datetime.now(timezone.utc), as a clock instant

gamesVars == <<gamesNow>>

\* The launcher (app.py): the instances started on one machine
VARIABLES
    appPc,             \* per instance: where run_app / main stands
    lockHeld,          \* the instances holding the lock on LOCK_PATH
    exitCode,          \* per instance: <<>> while it runs, <<code>> once it exits
    loaded,            \* the instances that have read the settings file or the cookies
    wrote,             \* the instances that have written the settings file or the cookies
    launches           \* how many times an exited instance was started again

appVars == <<appPc, lockHeld, exitCode, loaded, wrote, launches>>

\* Settings (settings.py)
VARIABLES
    settingsFile,      \* the JSON map stored at SETTINGS_PATH
    environ,           \* os.environ: the variables set to "1"
    jsonMerge,         \* whether json_load fits the loaded map to default_settings
    settings,          \* Settings._settings
    setPc              \* "unloaded" before Settings.__init__, "loaded" after it, "saved" after save

setVars == <<settingsFile, environ, jsonMerge, settings, setPc>>

\* The drop-update future of the watch loop and WebsocketManager.process_drops
VARIABLES
    dropPc,            \* where the watch loop stands in its cycle
    drop_update,       \* StreamsManager._drop_update: "None" or "future"
    futState,          \* the state of the future the cycle installed
    dropClock,         \* time awaited on the future
    dropHist,          \* what the cycle and the drop-progress handler have done
    claimPc,           \* where the drop-claim handler stands
    claimPolls,        \* CurrentDrop queries the drop-claim handler has made
    claimHist          \* what the drop-claim handler has done for its message

dropVars == <<dropPc, drop_update, futState, dropClock, dropHist, claimPc, claimPolls, claimHist>>

\* The life of one Websocket: its handler task, start() and stop()
VARIABLES
    handlePc,          \* where the handler task stands, or how it ended
    handle_task,       \* Websocket._handle_task: "None" or "task"
    closed,            \* Websocket._closed
    wsConn,            \* Websocket._ws: "none", an "open" websocket, one that is "closing"
    state_lock,        \* Websocket._state_lock: "free", or the call that holds it
    lifeHist           \* what has been seen of the calls and of the handler

lifeVars == <<handlePc, handle_task, closed, wsConn, state_lock, lifeHist>>

\* The device-code login (_AuthState._oauth_login)
VARIABLES
    oauthPc,           \* where _oauth_login stands
    payload,           \* its local `payload`: the keys of the form it posts
    device_code,       \* the device code of the last /oauth2/device answer, 0 before
    expires_at,        \* when that code expires
    oauthNow,          \* the clock
    oauthHist          \* what has been posted to /oauth2/device

oauthVars == <<oauthPc, payload, device_code, expires_at, oauthNow, oauthHist>>

vars == <<poolVars, connVars, mainVars, invVars, authVars, watchVars, reqVars, mntVars,
          algoVars, mergeVars, gamesVars, appVars, setVars, dropVars, lifeVars, oauthVars>>

\* ------------------------------------------------------------------------
\* Pub/sub pool: WebsocketPool and the topic table of each Websocket
\* ------------------------------------------------------------------------

\* Model-scale values of the build-time limits imported at websocket.py 25.
MAX_WEBSOCKETS == 2
WS_TOPICS_LIMIT == 2
\* Number of distinct topics the pool's callers draw from.
MaxTopics == 5

\* WebsocketTopic.as_str: the string identity "category-kind.target_id",
\* kept as the triple that determines it.
as_str(category, kind, target) == <<category, kind, target>>

PoolTopics == {as_str("Channel", "StreamState", i) : i \in 1..MaxTopics}

RECURSIVE SumLen(_)
SumLen(wss) == IF wss = <<>> THEN 0 ELSE Cardinality(Head(wss)) + SumLen(Tail(wss))

HeldTopics(wss) == UNION {wss[i] : i \in 1..Len(wss)}

\* Websocket.add_topics: pops topics off the shared set while there is room.
\* set.pop() takes an arbitrary element, so every choice of `take` is possible.
\* Result: the set of possible (new topic table, leftover set) pairs.
WsAddTopicsNoLimit(table, topics_set) ==
    {[topics |-> table \cup topics_set, left |-> {}]}

WsAddTopics(table, topics_set) ==
    LET room == WS_TOPICS_LIMIT - Cardinality(table)
        n    == Min(Max(room, 0), Cardinality(topics_set))
    IN  {[topics |-> table \cup take, left |-> topics_set \ take] :
            take \in {T \in SUBSET topics_set : Cardinality(T) = n}}

\* Websocket.remove_topics on one topic table.
WsRemoveTopics(table, names) == table \ names

\* The for-loop of WebsocketPool.add_topics from connection index idx on.
\* Result: the set of possible outcomes [ws, raised].
RECURSIVE PoolFill(_, _, _)
PoolFill(wss, idx, topics_set) ==
    IF idx > MAX_WEBSOCKETS
    THEN {[ws |-> wss, raised |-> TRUE]}
    ELSE LET cur == IF idx <= Len(wss) THEN wss ELSE Append(wss, {})
         IN  UNION {
                IF r.left = {}
                THEN {[ws |-> [cur EXCEPT ![idx] = r.topics], raised |-> FALSE]}
                ELSE PoolFill([cur EXCEPT ![idx] = r.topics], idx + 1, r.left)
                : r \in WsAddTopics(cur[idx], topics_set)}

\* WebsocketPool.add_topics.
PoolAddTopicsNoDedup(wss, new_topics) ==
    IF new_topics = {}
    THEN {[ws |-> wss, raised |-> FALSE]}
    ELSE PoolFill(wss, 1, new_topics)

PoolAddTopics(wss, new_topics) ==
    LET topics_set == new_topics \ HeldTopics(wss)
    IN  IF new_topics = {} \/ topics_set = {}
        THEN {[ws |-> wss, raised |-> FALSE]}
        ELSE PoolFill(wss, 1, topics_set)

\* The compaction loop of WebsocketPool.remove_topics.
RECURSIVE PoolCompactStrict(_, _)
PoolCompactStrict(wss, recycled) ==
    IF SumLen(wss) < (Len(wss) - 1) * WS_TOPICS_LIMIT
    THEN PoolCompactStrict(SubSeq(wss, 1, Len(wss) - 1), recycled \cup wss[Len(wss)])
    ELSE [ws |-> wss, recycled |-> recycled]

RECURSIVE PoolCompact(_, _)
PoolCompact(wss, recycled) ==
    IF SumLen(wss) <= (Len(wss) - 1) * WS_TOPICS_LIMIT
    THEN PoolCompact(SubSeq(wss, 1, Len(wss) - 1), recycled \cup wss[Len(wss)])
    ELSE [ws |-> wss, recycled |-> recycled]

\* WebsocketPool.remove_topics.
PoolRemoveTopicsNoRecycle(wss, names) ==
    IF names = {}
    THEN {[ws |-> wss, raised |-> FALSE]}
    ELSE {[ws |-> PoolCompact([i \in 1..Len(wss) |-> WsRemoveTopics(wss[i], names)], {}).ws,
           raised |-> FALSE]}

PoolRemoveTopics(wss, names) ==
    IF names = {}
    THEN {[ws |-> wss, raised |-> FALSE]}
    ELSE LET removed == [i \in 1..Len(wss) |-> WsRemoveTopics(wss[i], names)]
             c       == PoolCompact(removed, {})
         IN  IF c.recycled # {}
             THEN PoolAddTopics(c.ws, c.recycled)
             ELSE {[ws |-> c.ws, raised |-> FALSE]}

\* WebsocketPool.remove_topics: recycled_topics when the call reaches its end.
Recycled(wss, names) ==
    IF names = {}
    THEN {}
    ELSE PoolCompact([i \in 1..Len(wss) |-> WsRemoveTopics(wss[i], names)], {}).recycled

PoolInit ==
    /\ websockets = <<>>
    /\ poolCall = [op |-> "none", topics |-> {}, raised |-> FALSE, recycled |-> {}]

add_topics(new_topics) ==
    \E r \in PoolAddTopics(websockets, new_topics) :
        /\ websockets' = r.ws
        /\ poolCall' = [op |-> "add", topics |-> new_topics, raised |-> r.raised,
                        recycled |-> {}]

remove_topics(names) ==
    \E r \in PoolRemoveTopics(websockets, names) :
        /\ websockets' = r.ws
        /\ poolCall' = [op |-> "remove", topics |-> names, raised |-> r.raised,
                        recycled |-> Recycled(websockets, names)]

\* C3: after any sequence of add_topics and remove_topics calls, raising ones
\* included, every connection holds at most WS_TOPICS_LIMIT topics, the pool
\* holds at most MAX_WEBSOCKETS connections, and the total topic count is at
\* most MAX_WEBSOCKETS * WS_TOPICS_LIMIT.
C3_PoolLimits ==
    /\ \A i \in 1..Len(websockets) : Cardinality(websockets[i]) <= WS_TOPICS_LIMIT
    /\ Len(websockets) <= MAX_WEBSOCKETS
    /\ SumLen(websockets) <= MAX_WEBSOCKETS * WS_TOPICS_LIMIT

\* A call that raised, leaving every connection of a full pool at its limit.
C3_Witness ==
    /\ poolCall.op = "add"
    /\ poolCall.raised
    /\ Len(websockets) = MAX_WEBSOCKETS
    /\ SumLen(websockets) = MAX_WEBSOCKETS * WS_TOPICS_LIMIT

\* The topics of a call that are not yet in the pool, and the free slots of
\* MAX_WEBSOCKETS connections.
NotYetHeld(wss, new_topics) == new_topics \ HeldTopics(wss)
FreeSlots(wss) == MAX_WEBSOCKETS * WS_TOPICS_LIMIT - SumLen(wss)

\* Connection j of the pool after a call took in a topic during the call.
Gained(before, after, j) == j > Len(before) \/ after[j] # before[j]

\* C15: add_topics raises exactly when the requested topics that are not yet
\* in the pool exceed the free slots of MAX_WEBSOCKETS connections; when it
\* returns, every requested topic is held, no held topic was dropped, and a
\* connection took in topics only when every connection before it was full.
C15_AddTopics ==
    [][poolCall'.op = "add" =>
        /\ poolCall'.raised <=>
              Cardinality(NotYetHeld(websockets, poolCall'.topics)) > FreeSlots(websockets)
        /\ ~poolCall'.raised =>
              /\ poolCall'.topics \subseteq HeldTopics(websockets')
              /\ HeldTopics(websockets') = HeldTopics(websockets) \cup poolCall'.topics
              /\ Len(websockets') >= Len(websockets)
              /\ \A j \in 1..Len(websockets') :
                    Gained(websockets, websockets', j) =>
                        \A i \in 1..(j - 1) :
                            Cardinality(websockets'[i]) = WS_TOPICS_LIMIT
      ]_vars

\* A call that returned with its topics spread over a filled first connection
\* and a second one.
C15_Witness ==
    /\ poolCall.op = "add"
    /\ ~poolCall.raised
    /\ Len(websockets) = 2
    /\ Cardinality(websockets[1]) = WS_TOPICS_LIMIT
    /\ poolCall.topics \cap websockets[1] # {}
    /\ poolCall.topics \cap websockets[2] # {}

\* C16: after remove_topics no connection is empty, the pool has exactly as
\* many connections as the remaining topics need, and the call removed the
\* named topics and nothing else.
C16_RemoveTopics ==
    /\ [](poolCall.op = "remove" =>
            /\ \A i \in 1..Len(websockets) : websockets[i] # {}
            /\ Len(websockets) > 0 =>
                  SumLen(websockets) > (Len(websockets) - 1) * WS_TOPICS_LIMIT
            /\ ~poolCall.raised)
    /\ [][poolCall'.op = "remove" =>
            HeldTopics(websockets') = HeldTopics(websockets) \ poolCall'.topics
        ]_vars

\* A call after which the topics of a stopped connection are held by the
\* connections that remain.
C16_Witness ==
    /\ poolCall.op = "remove"
    /\ poolCall.recycled # {}
    /\ poolCall.recycled \subseteq HeldTopics(websockets)

\* The connections of the pool that hold topic t.
Holders(wss, t) == {i \in 1..Len(wss) : t \in wss[i]}

\* C38: no topic is held by two connections of the pool, after any sequence
\* of add_topics and remove_topics calls, raising ones and compactions
\* included.
C38_NoTopicTwice ==
    \A t \in PoolTopics : Cardinality(Holders(websockets, t)) <= 1

\* A compaction has stopped a connection and its topics have filled up the
\* connection that remains.
C38_Witness ==
    /\ poolCall.op = "remove"
    /\ poolCall.recycled # {}
    /\ Len(websockets) >= 1
    /\ poolCall.recycled \subseteq websockets[1]
    /\ ~(websockets[1] \subseteq poolCall.recycled)
    /\ Cardinality(websockets[1]) = WS_TOPICS_LIMIT

\* C39: remove_topics never raises; every topic held before the call and not
\* named in it is held by a connection after the call, the recycled topics
\* of stopped connections among them, and no named topic is held after it.
C39_RemoveExactly ==
    [][poolCall'.op = "remove" =>
        /\ ~poolCall'.raised
        /\ \A t \in HeldTopics(websockets) \ poolCall'.topics :
               Holders(websockets', t) # {}
        /\ \A t \in poolCall'.topics : Holders(websockets', t) = {}
        /\ \A t \in PoolTopics \ HeldTopics(websockets) : Holders(websockets', t) = {}
      ]_vars

\* A call that named a topic of each of two full connections, after which
\* the second connection is gone and the topic it had left has moved.
C39_Witness ==
    /\ poolCall.op = "remove"
    /\ Cardinality(poolCall.topics) = 2
    /\ Cardinality(poolCall.recycled) = 1
    /\ Len(websockets) = 1
    /\ Cardinality(websockets[1]) = WS_TOPICS_LIMIT

\* ------------------------------------------------------------------------
\* One pub/sub connection: Websocket._handle and what it calls
\* ------------------------------------------------------------------------

\* Model-scale values, in clock ticks, of PING_INTERVAL and PING_TIMEOUT
\* (websocket.py 25); the timeout is the shorter of the two.
PING_INTERVAL == 3
PING_TIMEOUT == 2
\* The clock stops at MaxTime.
MaxTime == 5

\* The topics one connection is given: the two topics of one channel.
ConnTopics == {as_str("Channel", "StreamState", 1), as_str("Channel", "StreamUpdate", 1)}

\* Counters of sent messages saturate at two.
Sat(n) == Min(n, 2)

\* What has been observed of the connection:
\*   epoch        connections established so far (saturating)
\*   listens      LISTEN messages sent on the current connection (saturating)
\*   unlistens    UNLISTEN messages sent on the current connection (saturating)
\*   lastListen   topics of the last LISTEN of the current connection
\*   changedSince the topic set changed since the last connection ended
\*   topicsDone   _handle_topics has returned on the current connection
\*   pingAt       time _handle_ping last set out to send a PING, -1 before the first
\*   pingSent     that PING went out (send() did not raise)
\*   pongAt       time a PONG was processed since then, -1 if none
\*   listening    topics sent on the current connection in a LISTEN and not
\*                in a later UNLISTEN
WsHist0 ==
    [epoch |-> 0, listens |-> 0, unlistens |-> 0, lastListen |-> {},
     changedSince |-> FALSE, topicsDone |-> FALSE, pingAt |-> -1,
     pingSent |-> FALSE, pongAt |-> -1, listening |-> {}]

connected == wsPc \notin {"connecting"}

\* Websocket.__init__ at time t0, after the pool has handed the connection
\* its first topics and started its task (WebsocketPool.add_topics).
ConnInit(t0) ==
    /\ wsPc = "connecting"
    /\ topics \in (SUBSET ConnTopics) \ {{}}
    /\ Cardinality(topics) <= WS_TOPICS_LIMIT
    /\ submitted = {}
    /\ topics_changed = TRUE
    /\ reconnect_requested = FALSE
    /\ now = t0
    /\ next_ping = t0
    /\ max_pong = t0 + PING_TIMEOUT
    /\ current = {}
    /\ delta = {}
    /\ pingPending = FALSE
    /\ pongQueued = FALSE
    /\ wsHist = WsHist0

\* The `finally` of _handle: what is left in _submitted when a connection ends.
SubmittedKept(sub) == sub

SubmittedAfterEnd(sub) == {}

\* A connection ends (reconnect requested, closed, or an exception):
\* the `finally` block of _handle and the way back into _backoff_connect.
ConnectionEnds ==
    /\ wsPc' = "connecting"
    /\ submitted' = SubmittedAfterEnd(submitted)
    /\ topics_changed' = TRUE
    /\ current' = {}
    /\ delta' = {}
    /\ pingPending' = FALSE
    /\ pongQueued' = FALSE

\* _backoff_connect yields a websocket: the head of the `async for` body.
Connect ==
    /\ wsPc = "connecting"
    /\ wsPc' = "ping"
    /\ reconnect_requested' = FALSE
    /\ wsHist' = [wsHist EXCEPT !.epoch = Sat(@ + 1), !.listens = 0,
                                !.unlistens = 0, !.lastListen = {},
                                !.topicsDone = FALSE, !.listening = {}]
    /\ UNCHANGED <<topics, submitted, topics_changed, next_ping, max_pong, now,
                   current, delta, pingPending, pongQueued>>

\* time() advances.
Tick ==
    /\ now < MaxTime
    /\ now' = now + 1
    /\ UNCHANGED <<wsPc, topics, submitted, topics_changed, reconnect_requested,
                   next_ping, max_pong, current, delta, pingPending,
                   pongQueued, wsHist>>

\* Which branch _handle_ping takes.
PingBranchTimeoutFirst(t, np, mp) ==
    IF t >= mp THEN "reconnect" ELSE IF t >= np THEN "ping" ELSE "none"

PingBranch(t, np, mp) ==
    IF t >= np THEN "ping" ELSE IF t >= mp THEN "reconnect" ELSE "none"

\* Websocket._handle_ping; `sent` is whether send() went through.
HandlePing(sent) ==
    /\ wsPc = "ping"
    /\ LET b == PingBranch(now, next_ping, max_pong) IN
        CASE b = "ping" ->
                /\ next_ping' = now + PING_INTERVAL
                /\ max_pong' = now + PING_TIMEOUT
                /\ IF sent
                   THEN /\ wsPc' = "topics"
                        /\ pingPending' = TRUE
                        /\ wsHist' = [wsHist EXCEPT !.pingAt = now, !.pingSent = TRUE,
                                                    !.pongAt = -1]
                        /\ UNCHANGED <<submitted, topics_changed, current, delta,
                                       pongQueued, reconnect_requested>>
                   ELSE /\ ConnectionEnds
                        /\ wsHist' = [wsHist EXCEPT !.changedSince = FALSE,
                                                    !.pingAt = now, !.pingSent = FALSE,
                                                    !.pongAt = -1]
                        /\ UNCHANGED reconnect_requested
          [] b = "reconnect" ->
                \* request_reconnect
                /\ sent
                /\ next_ping' = now
                /\ reconnect_requested' = TRUE
                /\ wsPc' = "topics"
                /\ UNCHANGED <<max_pong, submitted, topics_changed, current,
                               delta, pingPending, pongQueued, wsHist>>
          [] OTHER ->
                /\ sent
                /\ wsPc' = "topics"
                /\ UNCHANGED <<next_ping, max_pong, reconnect_requested,
                               submitted, topics_changed, current, delta,
                               pingPending, pongQueued, wsHist>>
    /\ UNCHANGED <<topics, now>>

\* _handle_topics up to `await get_auth()`.
HandleTopicsBegin ==
    /\ wsPc = "topics"
    /\ IF topics_changed
       THEN /\ topics_changed' = FALSE
            /\ wsPc' = "auth"
            /\ UNCHANGED wsHist
       ELSE /\ wsPc' = "recv"
            /\ wsHist' = [wsHist EXCEPT !.topicsDone = TRUE]
            /\ UNCHANGED topics_changed
    /\ UNCHANGED <<topics, submitted, reconnect_requested, next_ping, max_pong,
                   now, current, delta, pingPending, pongQueued>>

\* The "handle added topics" half of _handle_topics, up to its send():
\* cur is `current`, sub the value of _submitted it reads.
TopicsAdded(cur, sub, sent) ==
    LET added == cur \ sub IN
    IF added = {}
    THEN /\ wsPc' = "recv"
         /\ delta' = {}
         /\ current' = {}
         /\ wsHist' = [wsHist EXCEPT !.topicsDone = TRUE]
         /\ topics_changed' = topics_changed
         /\ submitted' = sub
         /\ UNCHANGED <<pingPending, pongQueued>>
    ELSE IF sent
    THEN /\ wsPc' = "listened"
         /\ delta' = added
         /\ current' = cur
         /\ wsHist' = [wsHist EXCEPT !.listens = Sat(@ + 1), !.lastListen = added,
                                     !.listening = @ \cup added]
         /\ topics_changed' = topics_changed
         /\ submitted' = sub
         /\ UNCHANGED <<pingPending, pongQueued>>
    ELSE /\ ConnectionEnds
         /\ wsHist' = [wsHist EXCEPT !.changedSince = FALSE]

\* _handle_topics from the return of get_auth() to its first send().
HandleTopicsDiff(sent) ==
    /\ wsPc = "auth"
    /\ LET cur == topics
           removed == submitted \ cur
       IN  IF removed # {}
           THEN IF sent
                THEN /\ wsPc' = "unlistened"
                     /\ current' = cur
                     /\ delta' = removed
                     /\ wsHist' = [wsHist EXCEPT !.unlistens = Sat(@ + 1),
                                                 !.listening = @ \ removed]
                     /\ UNCHANGED <<submitted, topics_changed, pingPending, pongQueued>>
                ELSE /\ ConnectionEnds
                     /\ wsHist' = [wsHist EXCEPT !.changedSince = FALSE]
           ELSE TopicsAdded(cur, submitted, sent)
    /\ UNCHANGED <<topics, reconnect_requested, next_ping, max_pong, now>>

\* _handle_topics after the UNLISTEN went out.
HandleTopicsAfterUnlisten(sent) ==
    /\ wsPc = "unlistened"
    /\ TopicsAdded(current, submitted \ delta, sent)
    /\ UNCHANGED <<topics, reconnect_requested, next_ping, max_pong, now>>

\* _handle_topics after the LISTEN went out.
HandleTopicsAfterListen ==
    /\ wsPc = "listened"
    /\ submitted' = submitted \cup delta
    /\ wsPc' = "recv"
    /\ current' = {}
    /\ delta' = {}
    /\ wsHist' = [wsHist EXCEPT !.topicsDone = TRUE]
    /\ UNCHANGED <<topics, topics_changed, reconnect_requested, next_ping,
                   max_pong, now, pingPending, pongQueued>>

\* _handle_recv on a PONG: the new _max_pong.
MaxPongIgnored(np, mp) == mp

MaxPongAfterPong(np, mp) == np

\* What _gather_recv can end with.
RecvEnds == {"timeout", "CLOSE", "CLOSED", "ERROR"}
\* Server messages other than PONG that a batch can hold.
RecvExtras == {"none", "RESPONSE", "RECONNECT"}

\* _handle_recv, then the `while` test of _handle and, when it leaves the
\* loop, its `finally`. A queued PONG is part of the batch.
HandleRecv(extra, end) ==
    /\ wsPc = "recv"
    /\ LET gotPong == pongQueued
           mp == IF gotPong THEN MaxPongAfterPong(next_ping, max_pong) ELSE max_pong
           rr == reconnect_requested \/ extra = "RECONNECT"
           hist == IF gotPong THEN [wsHist EXCEPT !.pongAt = now] ELSE wsHist
       IN  IF end # "timeout"
           THEN \* WebsocketClosed leaves _handle_recv before the batch is processed
                /\ ConnectionEnds
                /\ wsHist' = [wsHist EXCEPT !.changedSince = FALSE]
                /\ UNCHANGED <<max_pong, next_ping, reconnect_requested>>
           ELSE /\ max_pong' = mp
                /\ next_ping' = IF extra = "RECONNECT" THEN now ELSE next_ping
                /\ reconnect_requested' = rr
                /\ IF rr
                   THEN /\ ConnectionEnds
                        /\ wsHist' = [hist EXCEPT !.changedSince = FALSE]
                   ELSE /\ wsPc' = "ping"
                        /\ pongQueued' = FALSE
                        /\ wsHist' = hist
                        /\ UNCHANGED <<submitted, topics_changed, current, delta,
                                       pingPending>>
    /\ UNCHANGED <<topics, now>>

\* The server answers a PING.
ServerPong ==
    /\ connected
    /\ pingPending
    /\ pingPending' = FALSE
    /\ pongQueued' = TRUE
    /\ UNCHANGED <<wsPc, topics, submitted, topics_changed, reconnect_requested,
                   next_ping, max_pong, now, current, delta, wsHist>>

\* The flag a pool call leaves behind when it has changed the table.
ChangedKept(flag) == flag

ChangedSet(flag) == TRUE

\* A pool call changes this connection's topic table
\* (Websocket.add_topics, Websocket.remove_topics).
TopicsChange(new) ==
    /\ new # topics
    /\ new # {}
    /\ Cardinality(new) <= WS_TOPICS_LIMIT
    /\ topics' = new
    /\ topics_changed' = ChangedSet(topics_changed)
    /\ wsHist' = [wsHist EXCEPT !.changedSince = TRUE]
    /\ UNCHANGED <<wsPc, submitted, reconnect_requested, next_ping, max_pong,
                   now, current, delta, pingPending, pongQueued>>

\* C5: on a re-established connection whose topic set has not changed since
\* the previous connection ended, no UNLISTEN is sent and at most one LISTEN
\* is; that LISTEN carries all current topics, and once _handle_topics has
\* returned exactly one LISTEN has been sent.
C5_OneListenAfterReconnect ==
    (wsHist.epoch >= 2 /\ connected /\ ~wsHist.changedSince) =>
        /\ wsHist.unlistens = 0
        /\ wsHist.listens <= 1
        /\ (wsHist.listens = 1 => wsHist.lastListen = topics)
        /\ (wsHist.topicsDone => wsHist.listens = 1)

\* A re-established connection that has re-submitted its unchanged topics and
\* is back at the top of its loop.
C5_Witness ==
    /\ wsHist.epoch >= 2
    /\ wsPc = "ping"
    /\ ~wsHist.changedSince
    /\ wsHist.topicsDone
    /\ wsHist.listens = 1
    /\ submitted = topics

\* C37: if from some point on the connection stays connected with the
\* topic table T, then from some point on the topics the server has been
\* asked to listen to on that connection are exactly T.
C37_SubmittedConverges ==
    \A T \in SUBSET ConnTopics :
        <>[](connected /\ topics = T) => <>[](wsHist.listening = T)

\* The table was changed while an UNLISTEN was on its way, and the server
\* has since been asked for exactly the new table.
C37_Witness ==
    /\ connected /\ wsPc = "recv"
    /\ wsHist.changedSince /\ wsHist.unlistens >= 1 /\ wsHist.listens >= 2
    /\ ~topics_changed
    /\ wsHist.listening = topics

\* A step of _handle_ping, and one in which it requests a reconnect.
PingStep == wsPc = "ping" /\ wsPc' # "ping"
PingReconnect == PingStep /\ reconnect_requested' /\ ~reconnect_requested

\* C10 (as amended): _handle_ping requests a reconnect exactly when, at the
\* time it runs, it has set out to send a PING before (whether or not the send
\* went through), no PONG has been processed since, that PING's deadline has
\* passed and the next PING is not yet due; a PONG processed before that run,
\* even after the deadline, prevents the request.
C10_PingTimeout ==
    [][PingStep =>
        (PingReconnect <=>
            /\ wsHist.pingAt >= 0
            /\ wsHist.pongAt = -1
            /\ now >= wsHist.pingAt + PING_TIMEOUT
            /\ now < next_ping)]_vars

\* C10 as stated: a reconnect is requested exactly when a PING was sent and
\* no PONG was received by the time the clock reached the PING's deadline.
C10_Original ==
    [][PingStep =>
        (PingReconnect <=>
            /\ wsHist.pingAt >= 0
            /\ now >= wsHist.pingAt + PING_TIMEOUT
            /\ ~(wsHist.pongAt >= 0 /\ wsHist.pongAt <= wsHist.pingAt + PING_TIMEOUT))]_vars

\* The ping logic has just requested a reconnect for an unanswered PING.
C10_Witness ==
    /\ wsPc = "topics"
    /\ reconnect_requested
    /\ wsHist.pingAt >= 0
    /\ wsHist.pongAt = -1
    /\ now >= wsHist.pingAt + PING_TIMEOUT

\* ------------------------------------------------------------------------
\* The main state machine: Twitch._run and the tasks that request states
\* ------------------------------------------------------------------------

States == {"IDLE", "INVENTORY_FETCH", "GAMES_UPDATE", "CHANNELS_CLEANUP",
           "CHANNELS_FETCH", "CHANNEL_SWITCH", "EXIT"}

\* The states some task other than the main loop asks for: the maintenance
\* task (CHANNELS_CLEANUP, INVENTORY_FETCH), the watch loop, the drop and
\* notification handlers and the reload button (INVENTORY_FETCH),
\* on_channel_update and the switch button (CHANNEL_SWITCH).
RequestedStates == {"INVENTORY_FETCH", "CHANNELS_CLEANUP", "CHANNEL_SWITCH"}

None == "None"
Games == {"A", "B"}

\* Scaled: the registry keeps at most MAX_CHANNELS of the channels there are.
MAX_CHANNELS == 2
ChannelIds == {1, 2, 3}

\* Campaigns Twitch may report: one restricted to channel 1, one open to
\* any channel of its game and ending before the first.
CampA == [game |-> "A", allowed_channels |-> {1}, ends_at |-> 2]
CampB == [game |-> "B", allowed_channels |-> {}, ends_at |-> 1]
Inventories == {<<>>, <<CampA>>, <<CampB>>, <<CampA, CampB>>}

PriorityLists == {<<>>, <<"B", "A">>}

\* A channel: its id, its stream (Offline, or the game it streams) and
\* whether a campaign's ACL named it.
Offline == "Offline"
Streams == {Offline} \cup Games
Channel(id, stream, acl) == [id |-> id, stream |-> stream, acl_based |-> acl]
\* No channel: the empty watched slot, no switch target, no selection.
NoChannel == Channel(0, Offline, FALSE)
online(ch) == ch.stream # Offline
game(ch) == IF ch.stream \in Games THEN ch.stream ELSE None

Range(seq) == {seq[i] : i \in 1..Len(seq)}
Ids(chs) == {chs[i].id : i \in 1..Len(chs)}
ChannelById(chs, id) == chs[CHOOSE i \in 1..Len(chs) : chs[i].id = id]

ChannelTopics(ids) ==
    {as_str("Channel", "StreamState", id) : id \in ids}
        \cup {as_str("Channel", "StreamUpdate", id) : id \in ids}

\* sorted(seq, key=..., reverse=True): descending by key, equal keys keep
\* their order. keys[i] is the key of seq[i].
SortDesc(seq, keys) ==
    LET n == Len(seq)
        Rank(i) == 1 + Cardinality({j \in 1..n :
                        keys[j] > keys[i] \/ (keys[j] = keys[i] /\ j < i)})
    IN  [r \in 1..n |-> seq[CHOOSE i \in 1..n : Rank(i) = r]]

\* gui.settings.priorities(): {game_name: size - i}
Priorities(plist) ==
    [g \in Range(plist) |-> Len(plist) - ((CHOOSE i \in 1..Len(plist) : plist[i] = g) - 1)]

\* Campaign.can_earn(channel): no ACL, or the channel is in it.
CampaignCanEarn(campaign, ch) ==
    campaign.allowed_channels = {} \/ ch.id \in campaign.allowed_channels

\* GAMES_UPDATE, priority list algorithm: wanted_games after the loop over
\* the filtered campaigns (all of them: nothing is excluded).
RECURSIVE WantedFrom(_, _, _, _)
WantedFrom(filtered_campaigns, i, prios, wanted) ==
    IF i > Len(filtered_campaigns) THEN wanted
    ELSE LET g == filtered_campaigns[i].game
             game_priority == IF g \in DOMAIN prios THEN prios[g] ELSE 0
             key == IF game_priority # 0 THEN game_priority ELSE -(i - 1)
             next == [x \in DOMAIN wanted \cup {g} |-> IF x = g THEN key ELSE wanted[x]]
         IN  WantedFrom(filtered_campaigns, i + 1, prios, next)

NoGames == [g \in {} |-> 0]
WantedAfterUpdate(filtered_campaigns, plist) == WantedFrom(filtered_campaigns, 1, Priorities(plist), NoGames)

\* Twitch.get_priority -> _get_list_priority
get_priority(wanted, ch) ==
    IF game(ch) = None THEN 0
    ELSE IF game(ch) \in DOMAIN wanted THEN wanted[game(ch)] ELSE 0

\* Twitch.can_watch
can_watch(wanted, inv, ch) ==
    /\ DOMAIN wanted # {}
    /\ online(ch)
    /\ game(ch) # None
    /\ game(ch) \in DOMAIN wanted
    /\ \E i \in 1..Len(inv) : inv[i].game = game(ch) /\ CampaignCanEarn(inv[i], ch)

BoolKey(b) == IF b THEN 1 ELSE 0

\* Twitch.should_switch; cur is the watched channel or NoChannel
ShouldSwitchOrEqual(wanted, cur, ch) ==
    \/ cur = NoChannel
    \/ get_priority(wanted, ch) >= get_priority(wanted, cur)

should_switch(wanted, cur, ch) ==
    \/ cur = NoChannel
    \/ /\ cur # NoChannel
       /\ LET channel_order == get_priority(wanted, ch)
              watching_order == get_priority(wanted, cur)
          IN  \/ channel_order > watching_order
              \/ /\ channel_order = watching_order
                 /\ BoolKey(ch.acl_based) > BoolKey(cur.acl_based)

MainHist0 == [processed |-> "none", external |-> FALSE, watchCalled |-> FALSE, removed |-> {},
              selected |-> NoChannel.id]

\* What a handler of the main loop records.
Processed(s, watchCalled, removed) ==
    [processed |-> s, external |-> mainHist.external,
     watchCalled |-> watchCalled, removed |-> removed, selected |-> NoChannel.id]

\* Twitch.change_state: the flag after set() and then clear().
EventAfterChange == FALSE

\* Twitch.change_state. set() releases a wait() that is pending; the flag
\* itself is cleared again before anyone else runs.
change_state(s) ==
    /\ state' = s
    /\ state_change' = EventAfterChange
    /\ wake' = (wake \/ mainPc = "wait")

\* _run, line 524: await self._state_change.wait()
MainWait ==
    /\ mainPc = "wait"
    /\ state_change \/ wake
    /\ mainPc' = "top"
    /\ wake' = FALSE
    /\ UNCHANGED <<state, state_change, full_cleanup, wanted_games, inventory,
                   priority, channels, watching, tagged, subscribed, mainHist>>

\* _run, State.IDLE
ProcessIdle ==
    /\ mainPc = "top" /\ state = "IDLE"
    /\ watching' = NoChannel /\ tagged' = {}
    /\ state_change' = FALSE
    /\ mainPc' = "wait"
    /\ mainHist' = Processed("IDLE", FALSE, {})
    /\ UNCHANGED <<state, wake, full_cleanup, wanted_games, inventory, priority,
                   channels, subscribed>>

\* _run, State.INVENTORY_FETCH up to the awaits of websocket.start() and
\* fetch_inventory()
ProcessInventoryFetch ==
    /\ mainPc = "top" /\ state = "INVENTORY_FETCH"
    /\ mainPc' = "fetching"
    /\ UNCHANGED <<state, state_change, wake, full_cleanup, wanted_games, inventory,
                   priority, channels, watching, tagged, subscribed, mainHist>>

\* The priority algorithms modelled: the default and ENDING_SOONEST.
Algorithms == {"LIST", "ENDING_SOONEST"}

\* GAMES_UPDATE, ENDING_SOONEST: the loop over the campaigns sorted by
\* ends_at; a game of the priority list scores len(filtered_campaigns) - i.
RECURSIVE WantedEndingFrom(_, _, _, _)
WantedEndingFrom(sorted_campaigns, i, prios, wanted) ==
    IF i > Len(sorted_campaigns) THEN wanted
    ELSE LET g == sorted_campaigns[i].game
             game_priority == IF g \in DOMAIN prios THEN prios[g] ELSE 0
             key == IF game_priority # 0
                    THEN Len(sorted_campaigns) - (i - 1)
                    ELSE -(i - 1)
             next == [x \in DOMAIN wanted \cup {g} |-> IF x = g THEN key ELSE wanted[x]]
         IN  WantedEndingFrom(sorted_campaigns, i + 1, prios, next)

\* GAMES_UPDATE: wanted_games under the algorithm that is set.
WantedByAlgorithm(algorithm, filtered_campaigns, plist) ==
    IF algorithm = "ENDING_SOONEST"
    THEN LET by_end == SortDesc(filtered_campaigns,
                           [i \in 1..Len(filtered_campaigns) |-> -filtered_campaigns[i].ends_at])
         IN  WantedEndingFrom(by_end, 1, Priorities(plist), NoGames)
    ELSE WantedAfterUpdate(filtered_campaigns, plist)

\* SettingsPanel.update_priority_algorithm: the menu of the settings tab.
UpdatePriorityAlgorithm(algorithm) ==
    /\ priority_algorithm' = algorithm

\* _run, State.INVENTORY_FETCH once fetch_inventory() has returned
InventoryFetched(inv) ==
    /\ mainPc = "fetching"
    /\ inventory' = inv
    /\ change_state("GAMES_UPDATE")
    /\ mainPc' = "wait"
    /\ mainHist' = Processed("INVENTORY_FETCH", FALSE, {})
    /\ UNCHANGED <<full_cleanup, wanted_games, priority, channels, watching,
                   tagged, subscribed>>

\* _run, State.GAMES_UPDATE
ProcessGamesUpdate ==
    /\ mainPc = "top" /\ state = "GAMES_UPDATE"
    /\ wanted_games' = WantedByAlgorithm(priority_algorithm, inventory, priority)
    /\ full_cleanup' = TRUE
    /\ change_state("CHANNELS_CLEANUP")
    /\ mainPc' = "wait"
    /\ mainHist' = Processed("GAMES_UPDATE", FALSE, {})
    /\ UNCHANGED <<inventory, priority, channels, watching, tagged, subscribed>>

\* CHANNELS_CLEANUP without a full cleanup: the channels it removes.
CleanupRemovesOfflineOnly(wanted, ch) ==
    /\ ~ch.acl_based
    /\ ~online(ch)

CleanupRemovesAnyOrigin(wanted, ch) ==
    \/ ~online(ch)
    \/ game(ch) = None \/ game(ch) \notin DOMAIN wanted

CleanupRemoves(wanted, ch) ==
    /\ ~ch.acl_based
    /\ \/ ~online(ch)
       \/ game(ch) = None \/ game(ch) \notin DOMAIN wanted

\* _run, State.CHANNELS_CLEANUP
ProcessChannelsCleanup ==
    /\ mainPc = "top" /\ state = "CHANNELS_CLEANUP"
    /\ LET to_remove ==
               IF DOMAIN wanted_games = {} \/ full_cleanup
               THEN Ids(channels)
               ELSE {ch.id : ch \in {c \in Range(channels) : CleanupRemoves(wanted_games, c)}}
       IN  /\ subscribed' = subscribed \ ChannelTopics(to_remove)
           /\ channels' = SelectSeq(channels, LAMBDA ch : ch.id \notin to_remove)
           /\ tagged' = tagged \ to_remove
           /\ mainHist' = Processed("CHANNELS_CLEANUP", FALSE, to_remove)
    /\ full_cleanup' = FALSE
    /\ change_state(IF DOMAIN wanted_games # {} THEN "CHANNELS_FETCH" ELSE "IDLE")
    /\ mainPc' = "wait"
    /\ UNCHANGED <<wanted_games, inventory, priority, watching>>

\* The elements of a set of numbers in ascending order.
AscSeq(S) ==
    [r \in 1..Cardinality(S) |-> CHOOSE x \in S : Cardinality({y \in S : y < x}) = r - 1]

\* The channels a game directory query can return: the ones no ACL names.
DirIds == ChannelIds \ CampA.allowed_channels

\* CHANNELS_FETCH: the working set before it is sorted. live[d] is the game
\* channel d streams in the game directory, or Offline.
GatheredChannels(chs, inv, wanted, live) ==
    LET earnable == {i \in 1..Len(inv) : inv[i].game \in DOMAIN wanted}
        acl_ids == UNION {inv[i].allowed_channels : i \in earnable} \ Ids(chs)
        no_acl == {inv[i].game : i \in {j \in earnable : inv[j].allowed_channels = {}}}
        acl_channels == [r \in 1..Cardinality(acl_ids) |->
                            Channel(AscSeq(acl_ids)[r], Offline, TRUE)]
        live_ids == {d \in DirIds : live[d] \in no_acl} \ (Ids(chs) \cup acl_ids)
        live_channels == [r \in 1..Cardinality(live_ids) |->
                            Channel(AscSeq(live_ids)[r], live[AscSeq(live_ids)[r]], FALSE)]
    IN  chs \o acl_channels \o live_channels

\* CHANNELS_FETCH: sorted by viewers (not modelled: all equal), then by
\* acl_based, then by priority, each descending and stable.
OrderedChannels(chs, wanted) ==
    LET by_acl == SortDesc(chs, [i \in 1..Len(chs) |-> BoolKey(chs[i].acl_based)])
    IN  SortDesc(by_acl, [i \in 1..Len(by_acl) |-> get_priority(wanted, by_acl[i])])

\* Twitch.watch / Twitch.stop_watching with ChannelList.set_watching /
\* clear_watching
watch(ch) == watching' = ch /\ tagged' = {ch.id}
stop_watching == watching' = NoChannel /\ tagged' = {}

\* CHANNELS_FETCH: the watched channel is relinked only if it can be watched.
RelinkAlways(wanted, inv, ch) == TRUE

RelinkAllowed(wanted, inv, ch) == can_watch(wanted, inv, ch)

\* CHANNELS_FETCH, lines 419-452: the channel topics of the pool after
\* remove_topics for the channels cut off and add_topics for the ones kept.
FetchTopicsNoRemoval(held, kept, cut) == held \cup ChannelTopics(Ids(kept))

FetchTopics(held, kept, cut) ==
    (held \ ChannelTopics(Ids(cut))) \cup ChannelTopics(Ids(kept))

\* _run, State.CHANNELS_FETCH
ProcessChannelsFetch(live) ==
    /\ mainPc = "top" /\ state = "CHANNELS_FETCH"
    /\ LET ordered == OrderedChannels(
                          GatheredChannels(channels, inventory, wanted_games, live),
                          wanted_games)
           kept == SubSeq(ordered, 1, Min(MAX_CHANNELS, Len(ordered)))
           cut == SubSeq(ordered, Len(kept) + 1, Len(ordered))
       IN  /\ channels' = kept
           /\ subscribed' = FetchTopics(subscribed, kept, cut)
           /\ IF watching = NoChannel
              THEN UNCHANGED watching /\ tagged' = {}
              ELSE IF /\ watching.id \in Ids(kept)
                      /\ RelinkAllowed(wanted_games, inventory, ChannelById(kept, watching.id))
                   THEN watch(ChannelById(kept, watching.id))
                   ELSE stop_watching
           /\ mainHist' = Processed("CHANNELS_FETCH",
                                    watching # NoChannel /\ watching' # NoChannel, Ids(cut))
    /\ change_state("CHANNEL_SWITCH")
    /\ mainPc' = "wait"
    /\ UNCHANGED <<full_cleanup, wanted_games, inventory, priority>>

\* CHANNEL_SWITCH: the first channel by priority that can be watched and is
\* worth a switch, or NoChannel.
SwitchCandidate(chs, wanted, inv, cur) ==
    LET sorted == SortDesc(chs, [i \in 1..Len(chs) |-> get_priority(wanted, chs[i])])
        good == {i \in 1..Len(sorted) :
                    can_watch(wanted, inv, sorted[i]) /\ should_switch(wanted, cur, sorted[i])}
    IN  IF good = {} THEN NoChannel
        ELSE sorted[CHOOSE i \in good : \A j \in good : i <= j]

\* CHANNEL_SWITCH: the selected channel goes first, as long as it can be watched.
SelectedAnyway(wanted, inv, ch) == TRUE

SelectedAllowed(wanted, inv, ch) == can_watch(wanted, inv, ch)

\* CHANNEL_SWITCH, lines 501-518: what is done with the switch target.
SwitchOutcomeIdleFirst(new_watching, cur) ==
    IF cur = NoChannel THEN "idle"
    ELSE IF new_watching # NoChannel THEN "watch" ELSE "keep"

SwitchOutcome(new_watching, cur) ==
    IF new_watching # NoChannel THEN "watch"
    ELSE IF cur # NoChannel THEN "keep" ELSE "idle"

\* _run, State.CHANNEL_SWITCH; selected is gui.channels.get_selection()
ProcessChannelSwitch(selected) ==
    /\ mainPc = "top" /\ state = "CHANNEL_SWITCH"
    /\ LET new_watching ==
               IF /\ selected # NoChannel.id
                  /\ SelectedAllowed(wanted_games, inventory, ChannelById(channels, selected))
               THEN ChannelById(channels, selected)
               ELSE SwitchCandidate(channels, wanted_games, inventory, watching)
           outcome == SwitchOutcome(new_watching, watching)
       IN  /\ IF outcome = "watch"
              THEN watch(new_watching) /\ state_change' = FALSE /\ UNCHANGED <<state, wake>>
              ELSE IF outcome = "keep"
                   THEN state_change' = FALSE /\ UNCHANGED <<state, wake, watching, tagged>>
                   ELSE change_state("IDLE") /\ UNCHANGED <<watching, tagged>>
           /\ mainHist' = [Processed("CHANNEL_SWITCH", new_watching # NoChannel, {})
                               EXCEPT !.selected = selected]
    /\ mainPc' = "wait"
    /\ UNCHANGED <<full_cleanup, wanted_games, inventory, priority, channels, subscribed>>

\* _run, State.EXIT
ProcessExit ==
    /\ mainPc = "top" /\ state = "EXIT"
    /\ mainPc' = "done"
    /\ mainHist' = Processed("EXIT", FALSE, {})
    /\ UNCHANGED <<state, state_change, wake, full_cleanup, wanted_games, inventory,
                   priority, channels, watching, tagged, subscribed>>

\* Some other task calls change_state(s): the maintenance task, the watch
\* loop, a pub/sub handler or a button of the GUI.
RequestState(s) ==
    /\ mainPc # "done"
    /\ change_state(s)
    /\ mainHist' = [mainHist EXCEPT !.external = TRUE, !.watchCalled = FALSE, !.removed = {},
                                    !.selected = NoChannel.id]
    /\ UNCHANGED <<mainPc, full_cleanup, wanted_games, inventory, priority,
                   channels, watching, tagged, subscribed>>

\* on_channel_update, channel going ONLINE: it is watched only if it can be.
OnlineAnyway(wanted, inv, ch) == TRUE

OnlineAllowed(wanted, inv, ch) == can_watch(wanted, inv, ch)

\* on_channel_update, lines 313-318: the channel updated is the watched one
\* and cannot be watched any more.
UpdateRequestsSwitchOfflineOnly(wanted, inv, cur, after) ==
    /\ cur # NoChannel
    /\ cur.id = after.id
    /\ ~online(after)

UpdateRequestsSwitch(wanted, inv, cur, after) ==
    /\ cur # NoChannel
    /\ cur.id = after.id
    /\ ~can_watch(wanted, inv, after)

\* A pub/sub message changes the stream of a channel of the registry, and
\* the channel calls StreamsManager.on_channel_update(channel, before, after).
ChannelUpdate(id, stream_after) ==
    /\ mainPc # "done"
    /\ id \in Ids(channels)
    /\ LET before == ChannelById(channels, id)
           after == Channel(id, stream_after, before.acl_based)
           \* the slot holds the same object as the registry
           cur == IF watching.id = id THEN after ELSE watching
       IN  /\ channels' = [i \in 1..Len(channels) |->
                              IF channels[i].id = id THEN after ELSE channels[i]]
           /\ IF ~online(before)
              THEN IF /\ online(after)
                      /\ OnlineAllowed(wanted_games, inventory, after)
                      /\ should_switch(wanted_games, cur, after)
                   THEN /\ watch(after)
                        /\ mainHist' = [mainHist EXCEPT !.watchCalled = TRUE, !.removed = {},
                                                        !.selected = NoChannel.id]
                        /\ UNCHANGED <<state, state_change, wake>>
                   ELSE /\ watching' = cur
                        /\ mainHist' = [mainHist EXCEPT !.watchCalled = FALSE, !.removed = {},
                                                        !.selected = NoChannel.id]
                        /\ UNCHANGED <<state, state_change, wake, tagged>>
              ELSE IF UpdateRequestsSwitch(wanted_games, inventory, watching, after)
                   THEN /\ change_state("CHANNEL_SWITCH")
                        /\ watching' = cur
                        /\ mainHist' = [mainHist EXCEPT !.external = TRUE, !.removed = {},
                                                        !.watchCalled = FALSE,
                                                        !.selected = NoChannel.id]
                        /\ UNCHANGED tagged
                   ELSE /\ watching' = cur
                        /\ mainHist' = [mainHist EXCEPT !.watchCalled = FALSE, !.removed = {},
                                                        !.selected = NoChannel.id]
                        /\ UNCHANGED <<state, state_change, wake, tagged>>
    /\ UNCHANGED <<mainPc, full_cleanup, wanted_games, inventory, priority, subscribed>>

\* Twitch.__init__ and _run up to its loop (lines 71-254).
MainInit ==
    /\ state = "INVENTORY_FETCH"
    /\ state_change = FALSE
    /\ wake = FALSE
    /\ mainPc = "top"
    /\ full_cleanup = FALSE
    /\ wanted_games = NoGames
    /\ inventory = <<>>
    /\ priority \in PriorityLists
    /\ channels = <<>>
    /\ watching = NoChannel
    /\ tagged = {}
    /\ subscribed = {}
    /\ mainHist = MainHist0

\* The registries the loop can be entered with: channels in the order of
\* their ids, channel 1 being the one the ACL names.
Registries ==
    UNION {{[r \in 1..Cardinality(ids) |->
                Channel(AscSeq(ids)[r], st[AscSeq(ids)[r]], AscSeq(ids)[r] \in CampA.allowed_channels)]
            : st \in [ids -> Streams]}
           : ids \in {s \in SUBSET ChannelIds : Cardinality(s) <= MAX_CHANNELS}}

\* The head of the loop of _run with any state to process, nothing watched.
LoopInit ==
    /\ state \in States
    /\ state_change = FALSE
    /\ wake = FALSE
    /\ mainPc = "top"
    /\ full_cleanup \in (IF state = "CHANNELS_CLEANUP" THEN BOOLEAN ELSE {FALSE})
    /\ priority \in PriorityLists
    /\ inventory \in Inventories
    /\ wanted_games = WantedAfterUpdate(inventory, priority)
    /\ channels \in Registries
    /\ watching = NoChannel
    /\ tagged = {}
    /\ subscribed = ChannelTopics(Ids(channels))
    /\ mainHist = MainHist0

\* ------------------------------------------------------------------------
\* Claims about the main state machine
\* ------------------------------------------------------------------------

\* The main loop is blocked in wait(): nothing has released it.
MainBlocked == mainPc = "wait" /\ ~state_change /\ ~wake

\* C1: as long as no other task has requested a state, the main loop does
\* not block between the states of the chain INVENTORY_FETCH, GAMES_UPDATE,
\* CHANNELS_CLEANUP, then IDLE or CHANNELS_FETCH and CHANNEL_SWITCH: it
\* blocks only once the state is IDLE or CHANNEL_SWITCH has been processed.
C1_ChainRunsThrough ==
    (MainBlocked /\ ~mainHist.external)
        => (state = "IDLE" \/ mainHist.processed = "CHANNEL_SWITCH")

CleanupStep == mainPc = "top" /\ state = "CHANNELS_CLEANUP" /\ mainPc' = "wait"

\* C4: when CHANNELS_CLEANUP completes, every channel left in the registry
\* is ACL-based or online with a game in wanted_games, and both topics of
\* every removed channel are gone from the pool.
C4_CleanupResult ==
    [][CleanupStep =>
        /\ \A i \in 1..Len(channels') :
               \/ channels'[i].acl_based
               \/ online(channels'[i]) /\ game(channels'[i]) \in DOMAIN wanted_games'
        /\ \A id \in Ids(channels) \ Ids(channels') :
               ChannelTopics({id}) \cap subscribed' = {}
        /\ ChannelTopics(Ids(channels')) \subseteq subscribed']_vars

C4_Witness ==
    /\ mainHist.processed = "CHANNELS_CLEANUP"
    /\ mainPc = "wait"
    /\ mainHist.removed # {}
    /\ \E i \in 1..Len(channels) : ~channels[i].acl_based

\* The ACL-based channels of a registry.
AclIds(chs) == {chs[i].id : i \in {j \in 1..Len(chs) : chs[j].acl_based}}

\* The cleanup removes everything: no game is wanted, or it is the first
\* cleanup since a GAMES_UPDATE.
RemoveEverything == DOMAIN wanted_games = {} \/ full_cleanup

AlgoInit ==
    /\ state \in States
    /\ state_change = FALSE
    /\ wake = FALSE
    /\ mainPc = "top"
    /\ full_cleanup \in (IF state = "CHANNELS_CLEANUP" THEN BOOLEAN ELSE {FALSE})
    /\ priority = <<"A", "B">>
    /\ inventory = <<CampA, CampB>>
    /\ priority_algorithm \in Algorithms
    /\ wanted_games \in {WantedByAlgorithm(a, inventory, priority) : a \in Algorithms}
    /\ channels \in Registries
    /\ watching = NoChannel
    /\ tagged = {}
    /\ subscribed = ChannelTopics(Ids(channels))
    /\ mainHist = MainHist0

SwitchStep == mainPc = "top" /\ state = "CHANNEL_SWITCH" /\ mainPc' = "wait"

\* Some channel of the registry streams game g and can be watched.
Watchable(g) ==
    \E i \in 1..Len(channels) :
        game(channels[i]) = g /\ can_watch(wanted_games, inventory, channels[i])

SelectedWatchable(sel) ==
    /\ sel # NoChannel.id
    /\ sel \in Ids(channels)
    /\ can_watch(wanted_games, inventory, ChannelById(channels, sel))

\* The channels of the registry that can be watched and are worth a switch
\* from the watched channel.
SwitchTargets ==
    {ch \in Range(channels) :
        can_watch(wanted_games, inventory, ch) /\ should_switch(wanted_games, watching, ch)}

C28_RequestNotLost ==
    [][(mainPc = "fetching" /\ mainPc' = "wait" /\ state # "INVENTORY_FETCH")
        => (state' = state /\ ~MainBlocked')]_vars

FetchStep == mainPc = "top" /\ state = "CHANNELS_FETCH" /\ mainPc' = "wait"

\* C30: when CHANNELS_FETCH completes, the registry holds at most
\* MAX_CHANNELS channels and the channel topics of the pool are exactly the
\* StreamState and StreamUpdate topics of the channels of the registry: both
\* are held for every channel kept and neither for a channel cut off.
C30_FetchResult ==
    [][FetchStep =>
        /\ Len(channels') <= MAX_CHANNELS
        /\ subscribed' = ChannelTopics(Ids(channels'))
        /\ \A id \in Ids(channels') :
              /\ as_str("Channel", "StreamState", id) \in subscribed'
              /\ as_str("Channel", "StreamUpdate", id) \in subscribed'
        /\ \A id \in mainHist'.removed :
              /\ id \notin Ids(channels')
              /\ as_str("Channel", "StreamState", id) \notin subscribed'
              /\ as_str("Channel", "StreamUpdate", id) \notin subscribed']_vars

\* A CHANNELS_FETCH that filled the registry and cut a channel off.
C30_Witness ==
    /\ mainHist.processed = "CHANNELS_FETCH"
    /\ mainPc = "wait"
    /\ mainHist.removed # {}
    /\ Len(channels) = MAX_CHANNELS

\* on_channel_update has run for the channel id, whose stream has changed.
UpdateStep(id) ==
    /\ mainPc' = mainPc
    /\ id \in Ids(channels) /\ Ids(channels') = Ids(channels)
    /\ ChannelById(channels', id) # ChannelById(channels, id)

DropsOf(campaign) == IF campaign = CampA THEN {"a1", "a2"} ELSE {"b1"}

DropsAll(inv) == UNION {DropsOf(inv[i]) : i \in 1..Len(inv)}

InvObs0 == [op |-> "none", pc |-> "idle", inventory |-> <<>>, drops |-> {},
            campaigns |-> <<>>, prev |-> <<>>]

InvInit ==
    /\ invPc = "idle"
    /\ campaigns = <<>>
    /\ drops = {}
    /\ invPrev = <<>>
    /\ invObs = InvObs0

\* fetch_inventory up to its first await (gql_request)
FetchBegin ==
    /\ invPc = "idle"
    /\ invPc' = "requesting"
    /\ UNCHANGED <<campaigns, drops, invPrev, invObs, inventory>>

\* The loop of fetch_inventory: _drops once the i-th campaign has been
\* handed to gui.inv.add_campaign and the loop awaits it.
DropsUpdatedAfterAwait(new, i) == DropsAll(SubSeq(new, 1, i - 1))

DropsWhileAdding(new, i) == DropsAll(SubSeq(new, 1, i))

\* fetch_inventory from the answer of its last request: the campaigns are
\* built and sorted, _drops and inventory are cleared, and the loop runs to
\* its first await.
FetchBuilt(new) ==
    /\ invPc = "requesting"
    /\ campaigns' = new
    /\ invPrev' = inventory
    /\ inventory' = <<>>
    /\ IF new = <<>>
       THEN drops' = {} /\ invPc' = "idle"
       ELSE drops' = DropsWhileAdding(new, 1) /\ invPc' = "adding"
    /\ UNCHANGED invObs

\* gui.inv.add_campaign returns: the campaign is appended, and the loop
\* goes on to the next await or ends.
CampaignAdded ==
    /\ invPc = "adding"
    /\ inventory' = Append(inventory, campaigns[Len(inventory) + 1])
    /\ IF Len(inventory') < Len(campaigns)
       THEN drops' = drops \cup DropsWhileAdding(campaigns, Len(inventory') + 1)
            /\ invPc' = "adding"
       ELSE UNCHANGED drops /\ invPc' = "idle"
    /\ UNCHANGED <<campaigns, invPrev, invObs>>

\* Another task runs while fetch_inventory is suspended or idle and reads:
\* process_drops calls get_drop, the watch loop calls get_active_drop.
Read(op) ==
    /\ invObs' = [op |-> op, pc |-> invPc, inventory |-> inventory, drops |-> drops,
                  campaigns |-> campaigns, prev |-> invPrev]
    /\ UNCHANGED <<invPc, campaigns, drops, invPrev, inventory>>

IsPrefix(s, t) == Len(s) <= Len(t) /\ s = SubSeq(t, 1, Len(s))

\* C6 (as stated): a reader never finds an empty or partially populated
\* inventory list or drops map: it finds the complete previous inventory
\* or the complete new one.
C6_Original ==
    invObs.op # "none" =>
        \/ invObs.inventory = invObs.prev /\ invObs.drops = DropsAll(invObs.prev)
        \/ invObs.inventory = invObs.campaigns /\ invObs.drops = DropsAll(invObs.campaigns)

\* C6 (amended): during the rebuild a reader finds a prefix of the new
\* list and, in the map, the drops of that prefix and of the campaign being
\* added; outside the rebuild it finds the complete new inventory.
C6_PrefixDuringRebuild ==
    invObs.op # "none" =>
        /\ IsPrefix(invObs.inventory, invObs.campaigns)
        /\ invObs.pc = "adding" =>
               /\ Len(invObs.inventory) < Len(invObs.campaigns)
               /\ invObs.drops = DropsAll(SubSeq(invObs.campaigns, 1, Len(invObs.inventory) + 1))
        /\ invObs.pc # "adding" =>
               /\ invObs.inventory = invObs.campaigns
               /\ invObs.drops = DropsAll(invObs.campaigns)

C6_Witness ==
    /\ invObs.op = "get_drop"
    /\ invObs.pc = "adding"
    /\ Len(invObs.inventory) = 1
    /\ Len(invObs.campaigns) = 2
    /\ invObs.prev # <<>>

\* ------------------------------------------------------------------------
\* The auth state (auth.py): validate() and the login sequence
\* ------------------------------------------------------------------------

\* The tasks that call Twitch.get_auth (the main loop, the pub/sub
\* connections, the watch loop).
AuthTasks == {1, 2, 3}

\* Values the platform can hand out; 0 stands for an attribute that is not
\* set (hasattr is false) and for a cookie that is absent.
Unset == 0
Nonces == {1, 2}
DeviceIds == {1, 2}
Tokens == {1, 2}
UserIds == {1, 2}

\* Positions of _validate that wait for an answer of the platform.
Requesting == {"device", "oauth", "check"}

AuthAttrs(sid, dev, tok, uid) ==
    [session_id |-> sid, device_id |-> dev, access_token |-> tok, user_id |-> uid]

NoAttrs == AuthAttrs(Unset, Unset, Unset, Unset)
CurrentAttrs == AuthAttrs(session_id, device_id, access_token, user_id)

\* _hasattrs("session_id", "device_id", "access_token", "user_id")
AllSet ==
    session_id # Unset /\ device_id # Unset /\ access_token # Unset /\ user_id # Unset

AuthInit ==
    /\ authPc = [t \in AuthTasks |-> "idle"]
    /\ locked = FALSE /\ lockQueue = <<>>
    /\ session_id = Unset /\ device_id = Unset
    /\ access_token = Unset /\ user_id = Unset
    /\ attempt = [t \in AuthTasks |-> 0]
    /\ logged_in = FALSE
    /\ authSeen = [t \in AuthTasks |-> NoAttrs]
    /\ authWaited = [t \in AuthTasks |-> FALSE]
    /\ loginRuns = 0
    /\ jarToken \in {Unset} \cup Tokens

\* asyncio.Lock.acquire without waiting: the lock is free and nobody is queued.
LockFreeAlways == TRUE

LockFree == ~locked /\ lockQueue = <<>>

\* _validate from one suspension point to the next: task t goes to position
\* pc with the attributes and the cookie jar as given.  Leaving _validate
\* ("done" by return, "raised" by an exception) leaves `async with`, which
\* releases the lock; a return hands the caller the state as it is then.
AuthStep(t, pc, sid, dev, tok, uid, jar, att) ==
    /\ authPc' = [authPc EXCEPT ![t] = pc]
    /\ session_id' = sid /\ device_id' = dev
    /\ access_token' = tok /\ user_id' = uid
    /\ jarToken' = jar
    /\ attempt' = [attempt EXCEPT ![t] = att]
    /\ locked' = (pc \in Requesting)
    /\ logged_in' = (logged_in \/ pc = "done")
    /\ authSeen' = [authSeen EXCEPT ![t] =
                        IF pc = "done" THEN AuthAttrs(sid, dev, tok, uid) ELSE NoAttrs]

\* _validate, `for attempt in range(2)`: the head of one round, or the
\* loop's else branch (RuntimeError) after the second round.
StartAttempt(t, sid, dev, tok, jar, att) ==
    IF att >= 2
    THEN AuthStep(t, "raised", sid, dev, tok, user_id, jar, att)
    ELSE IF jar = Unset
         THEN AuthStep(t, "oauth", sid, dev, tok, user_id, jar, att)
         ELSE AuthStep(t, "check", sid, dev, IF tok = Unset THEN jar ELSE tok,
                       user_id, jar, att)

\* _validate after the device id is known.
AfterDevice(t, sid, dev) ==
    IF access_token # Unset /\ user_id # Unset
    THEN AuthStep(t, "done", sid, dev, access_token, user_id, jarToken, 0)
    ELSE StartAttempt(t, sid, dev, access_token, jarToken, 0)

\* _validate from its first line, with the lock held.
Begin(t) ==
    \E nonce \in Nonces :
        LET sid == IF session_id = Unset THEN nonce ELSE session_id
        IN  IF device_id = Unset
            THEN AuthStep(t, "device", sid, Unset, access_token, user_id, jarToken, 0)
            ELSE AfterDevice(t, sid, device_id)

\* validate(): `async with self._lock`
Call(t) ==
    /\ authPc[t] \in {"idle", "done"}
    /\ UNCHANGED loginRuns
    /\ IF LockFree
       THEN /\ Begin(t)
            /\ authWaited' = [authWaited EXCEPT ![t] = FALSE]
            /\ UNCHANGED lockQueue
       ELSE /\ authPc' = [authPc EXCEPT ![t] = "lock"]
            /\ lockQueue' = Append(lockQueue, t)
            /\ authWaited' = [authWaited EXCEPT ![t] = TRUE]
            /\ authSeen' = [authSeen EXCEPT ![t] = NoAttrs]
            /\ UNCHANGED <<locked, session_id, device_id, access_token, user_id,
                           jarToken, attempt, logged_in>>

\* The first waiter gets the released lock.
Resume(t) ==
    /\ authPc[t] = "lock" /\ ~locked
    /\ lockQueue # <<>> /\ Head(lockQueue) = t
    /\ lockQueue' = Tail(lockQueue)
    /\ Begin(t)
    /\ UNCHANGED <<authWaited, loginRuns>>

\* The GET of the client page is answered: the jar holds unique_id now.
DeviceAnswer(t, dev) ==
    /\ authPc[t] = "device"
    /\ AfterDevice(t, session_id, dev)
    /\ UNCHANGED <<lockQueue, authWaited, loginRuns>>

\* _oauth_login returns the token the user has authorised.
OauthAnswer(t, tok) ==
    /\ authPc[t] = "oauth"
    /\ AuthStep(t, "check", session_id, device_id, tok, user_id, jarToken, attempt[t])
    /\ UNCHANGED <<lockQueue, authWaited, loginRuns>>

\* The answer of oauth2/validate: 401 clears the cookies and starts the next
\* round, 200 ends the loop, anything else starts the next round as well.
\* A 200 for another client id raises MinerException.
CheckAnswer(t, status, own_client, uid) ==
    /\ authPc[t] = "check"
    /\ UNCHANGED <<lockQueue, authWaited>>
    /\ IF status = 200
       THEN IF own_client
            THEN /\ AuthStep(t, "done", session_id, device_id, access_token, uid,
                             IF jarToken = Unset THEN access_token ELSE jarToken, 0)
                 /\ loginRuns' = loginRuns + 1
            ELSE /\ AuthStep(t, "raised", session_id, device_id, access_token,
                             user_id, jarToken, attempt[t])
                 /\ UNCHANGED loginRuns
       ELSE /\ StartAttempt(t, session_id, device_id, access_token,
                            IF status = 401 THEN Unset ELSE jarToken, attempt[t] + 1)
            /\ UNCHANGED loginRuns

WATCH_INTERVAL == 3
DROP_UPDATE_TIMEOUT == 1
MaxElapsed == 4

\* What has been seen of the current cycle: a restart raised before its
\* sleep began, one raised during its sleep, and how the sleep ended.
WatchHist0 == [restartBefore |-> FALSE, restartDuring |-> FALSE, outcome |-> "none"]

WatchInit ==
    /\ watchPc = "get" /\ watching_restart = FALSE
    /\ watchClock = 0 /\ watchChannel = NoChannel /\ watchHist = WatchHist0

\* The watch loop leaves the slot alone and keeps the channel it has read.
SlotKept == UNCHANGED <<watching, tagged, watchChannel>>

\* restart_watching, called by GAMES_UPDATE and by the drop-claim handler
RestartWatching ==
    /\ watching_restart' = TRUE
    /\ watchHist' = IF watchPc = "sleep"
                    THEN [watchHist EXCEPT !.restartDuring = TRUE]
                    ELSE IF watchPc \in {"send", "update", "gql"}
                         THEN [watchHist EXCEPT !.restartBefore = TRUE]
                         ELSE watchHist
    /\ UNCHANGED <<watchPc, watchClock>>
    /\ SlotKept

\* _watch_loop: watching_channel.get() returns once the slot holds a
\* channel; a new cycle begins.
WatchGet ==
    /\ watchPc = "get" /\ watching # NoChannel
    /\ watchChannel' = watching
    /\ watchPc' = "send" /\ watchClock' = 0
    /\ watchHist' = WatchHist0
    /\ UNCHANGED <<watching_restart, watching, tagged>>

\* The main loop fills and empties the slot.
Watch(ch) == watch(ch) /\ UNCHANGED watchVars
StopWatching == stop_watching /\ UNCHANGED watchVars

\* _watch_sleep clears the restart flag before it waits.
FlagKept == watching_restart

FlagAtSleep == FALSE

\* _watch_sleep(delay), entered `elapsed` after the instant the delay is
\* counted from: wait_for with nothing left to wait for times out at once.
SleepBegin(elapsed) ==
    /\ watching_restart' = FlagAtSleep
    /\ IF elapsed >= WATCH_INTERVAL
       THEN /\ watchPc' = "get" /\ watchClock' = 0
            /\ watchHist' = [watchHist EXCEPT !.outcome = "timeout"]
       ELSE /\ watchPc' = "sleep" /\ watchClock' = elapsed
            /\ UNCHANGED watchHist

\* channel.send_watch() returns (succeeded, repeat_now).
SendWatch(succeeded, repeat_now) ==
    /\ watchPc = "send" /\ SlotKept
    /\ IF succeeded
       THEN /\ watchPc' = "update" /\ watchClock' = 0
            /\ UNCHANGED <<watching_restart, watchHist>>
       ELSE IF repeat_now
            THEN /\ watchPc' = "get"
                 /\ UNCHANGED <<watching_restart, watchClock, watchHist>>
            ELSE SleepBegin(0)

\* wait_for(self._drop_update, timeout=10): the pub/sub handler resolves the
\* future with True or False, or the wait times out (fallback to the
\* locally active drop, then the sleep).
DropUpdate(handled) ==
    /\ watchPc = "update" /\ SlotKept
    /\ IF watchClock >= DROP_UPDATE_TIMEOUT \/ handled
       THEN SleepBegin(watchClock)
       ELSE /\ watchPc' = "gql"
            /\ UNCHANGED <<watching_restart, watchClock, watchHist>>

\* The CurrentDrop answer arrives; every branch ends in the sleep.
GqlAnswer ==
    /\ watchPc = "gql" /\ SlotKept
    /\ SleepBegin(watchClock)

\* Time passes while the loop waits.  In the sleep the timeout fires when
\* the deadline is reached; a set flag is served before any more time passes.
WatchTick ==
    /\ \/ watchPc = "update" /\ watchClock < DROP_UPDATE_TIMEOUT
       \/ watchPc = "gql" /\ watchClock < MaxElapsed
       \/ watchPc = "sleep" /\ ~watching_restart
    /\ IF watchPc = "sleep" /\ watchClock + 1 >= WATCH_INTERVAL
       THEN /\ watchPc' = "get" /\ watchClock' = 0
            /\ watchHist' = [watchHist EXCEPT !.outcome = "timeout"]
       ELSE /\ watchClock' = watchClock + 1
            /\ UNCHANGED <<watchPc, watchHist>>
    /\ UNCHANGED watching_restart
    /\ SlotKept

\* wait_for returns because the restart event was set.
SleepWake ==
    /\ watchPc = "sleep" /\ watching_restart /\ SlotKept
    /\ watchPc' = "get" /\ watchClock' = 0
    /\ watchHist' = [watchHist EXCEPT !.outcome = "early"]
    /\ UNCHANGED watching_restart

MaxReqTime == 3
SessionTimeout == 1

\* Statuses the platform answers with, and the errors session.request raises.
Statuses == {200, 404, 500, 503}
RequestErrors == {"connection", "timeout", "certificate"}

\* invalidate_after: None (the empty set) or one instant.
Deadlines == {{}} \cup {{t} : t \in 0..(MaxReqTime + 1)}

ReqHist0 == [closedAt |-> "no", retried |-> FALSE]

RequestInit ==
    /\ reqPc = "idle" /\ return_error = FALSE /\ invalidate_after = {}
    /\ close_requested = FALSE /\ reqNow = 0
    /\ reqStatus = 0 /\ reqError = "none" /\ reqResult = "none"
    /\ reqHist = ReqHist0
    /\ gqlPc = "idle" /\ gqlBatch = <<>> /\ gqlOutcome = "none"

\* request: `datetime.now(timezone.utc) >= (invalidate_after - session_timeout)`
DeadlineIgnored(ia, t) == FALSE

DeadlineReached(ia, t) == \E d \in ia : t >= d - SessionTimeout

\* request: position, last answer and what the caller gets.
ReqStep(pc, status, error, result) ==
    /\ reqPc' = pc /\ reqStatus' = status
    /\ reqError' = error /\ reqResult' = result

\* request, head of `for delay in backoff`: the close signal is checked
\* first, then the deadline, then the attempt starts.
CloseUnchecked == FALSE

CloseSeen == close_requested

LoopHead(ia, hist) ==
    /\ IF CloseSeen
       THEN ReqStep("done", reqStatus, reqError, "ExitRequest")
       ELSE IF DeadlineReached(ia, reqNow)
            THEN ReqStep("done", reqStatus, reqError, "RequestInvalid")
            ELSE ReqStep("inflight", reqStatus, reqError, "none")
    /\ reqHist' = hist

\* request(..., invalidate_after=ia, return_error=re) called by any task but
\* gql_request.
RequestCall(re, ia) ==
    /\ reqPc \in {"idle", "done"} /\ gqlPc \in {"idle", "returned", "raised"}
    /\ return_error' = re /\ invalidate_after' = ia
    /\ LoopHead(ia, [ReqHist0 EXCEPT !.closedAt =
                         IF close_requested THEN "before" ELSE "no"])
    /\ UNCHANGED <<close_requested, reqNow, gqlPc, gqlBatch, gqlOutcome>>

\* request: `response.status < 500 or return_error`
HandedBelow400(status, re) == status < 400 \/ re

Handed(status, re) == status < 500 \/ re

\* session.request answers with a response.
ResponseAnswer(status) ==
    /\ reqPc = "inflight" /\ ~close_requested
    /\ IF Handed(status, return_error)
       THEN ReqStep("reading", status, "none", "none")
       ELSE ReqStep("backoff", status, "none", "none")
    /\ UNCHANGED <<return_error, invalidate_after, close_requested, reqNow, reqHist,
                   gqlPc, gqlBatch, gqlOutcome>>

\* session.request raises: a certificate error is raised again, a
\* connection error and a timeout go to the backoff wait.
ErrorAnswer(error) ==
    /\ reqPc = "inflight" /\ ~close_requested
    /\ IF error = "certificate"
       THEN ReqStep("done", 0, error, "CertificateError")
       ELSE ReqStep("backoff", 0, error, "none")
    /\ UNCHANGED <<return_error, invalidate_after, close_requested, reqNow, reqHist,
                   gqlPc, gqlBatch, gqlOutcome>>

\* coro_unless_closed finds the close signal set when it resumes.
ClosedInFlight ==
    /\ reqPc = "inflight" /\ close_requested
    /\ ReqStep("done", reqStatus, reqError, "ExitRequest")
    /\ UNCHANGED <<return_error, invalidate_after, close_requested, reqNow, reqHist,
                   gqlPc, gqlBatch, gqlOutcome>>

\* response.read() is done: the response is yielded.
ReadDone ==
    /\ reqPc = "reading"
    /\ ReqStep("done", reqStatus, reqError, "response")
    /\ UNCHANGED <<return_error, invalidate_after, close_requested, reqNow, reqHist,
                   gqlPc, gqlBatch, gqlOutcome>>

\* wait_for(wait_until_closed(), timeout=delay) returns, by its timeout or
\* because close was requested; the loop goes to its head.
BackoffEnd ==
    /\ reqPc = "backoff"
    /\ LoopHead(invalidate_after, [reqHist EXCEPT !.retried = TRUE])
    /\ UNCHANGED <<return_error, invalidate_after, close_requested, reqNow,
                   gqlPc, gqlBatch, gqlOutcome>>

\* GUIManager.close
CloseRequest ==
    /\ ~close_requested
    /\ close_requested' = TRUE
    /\ reqHist' = [reqHist EXCEPT !.closedAt = IF @ = "no" THEN reqPc ELSE @]
    /\ UNCHANGED <<reqPc, return_error, invalidate_after, reqNow, reqStatus, reqError,
                   reqResult, gqlPc, gqlBatch, gqlOutcome>>

\* Time passes while the request layer waits.
ReqTick ==
    /\ reqNow < MaxReqTime
    /\ reqPc \in {"inflight", "reading", "backoff"} \/ gqlPc \in {"auth", "sleep"}
    /\ reqNow' = reqNow + 1
    /\ UNCHANGED <<reqPc, return_error, invalidate_after, close_requested, reqStatus,
                   reqError, reqResult, reqHist, gqlPc, gqlBatch, gqlOutcome>>

\* The answers of the GQL endpoint: a batch of responses, each with or
\* without an "errors" list; an error has a message or none ("").
Retryable == {"service unavailable", "service timeout", "context deadline exceeded"}
Messages == {"service timeout", "PersistedQueryNotFound", ""}
MaxBatch == 2
MaxErrors == 2

ErrorLists == UNION {[1..n -> Messages] : n \in 0..MaxErrors}
Responses ==
    {[has_errors |-> FALSE, errors |-> <<>>]}
        \cup {[has_errors |-> TRUE, errors |-> e] : e \in ErrorLists}
Batches == UNION {[1..n -> Responses] : n \in 1..MaxBatch}

\* One clean answer, one with a retryable error, one with another error.
BatchSamples ==
    {<<[has_errors |-> FALSE, errors |-> <<>>]>>,
     <<[has_errors |-> TRUE, errors |-> <<"service timeout">>]>>,
     <<[has_errors |-> TRUE, errors |-> <<"PersistedQueryNotFound">>]>>}

HasRetryable(response) ==
    \E j \in 1..Len(response.errors) : response.errors[j] \in Retryable

\* gql_request, the loop over response_list: a retryable error anywhere in
\* the batch forces the retry.
ScanAnywhere(batch, i) ==
    IF \E k \in 1..Len(batch) : batch[k].has_errors /\ HasRetryable(batch[k])
    THEN "retry"
    ELSE IF \E k \in 1..Len(batch) : batch[k].has_errors THEN "raise" ELSE "return"

\* gql_request, the loop over response_list from response i on: the first
\* response with errors decides, by retry if one of its errors is
\* retryable and by MinerException if none is.
RECURSIVE Scan(_, _)
Scan(batch, i) ==
    IF i > Len(batch)
    THEN "return"
    ELSE IF batch[i].has_errors
         THEN IF HasRetryable(batch[i]) THEN "retry" ELSE "raise"
         ELSE Scan(batch, i + 1)

\* gql_request is called.
GqlCall ==
    /\ gqlPc \in {"idle", "returned", "raised"} /\ reqPc \in {"idle", "done"}
    /\ gqlPc' = "auth" /\ gqlBatch' = <<>> /\ gqlOutcome' = "none"
    /\ UNCHANGED <<reqPc, return_error, invalidate_after, close_requested, reqNow,
                   reqStatus, reqError, reqResult, reqHist>>

\* gql_request: get_auth has returned, request is entered with the auth
\* state's integrity_expires as invalidate_after.
GqlRequest(integrity_expires) ==
    /\ gqlPc = "auth"
    /\ gqlPc' = "request"
    /\ return_error' = FALSE /\ invalidate_after' = integrity_expires
    /\ LoopHead(integrity_expires, [ReqHist0 EXCEPT !.closedAt =
                                        IF close_requested THEN "before" ELSE "no"])
    /\ UNCHANGED <<close_requested, reqNow, gqlBatch, gqlOutcome>>

\* gql_request after request has ended: RequestInvalid goes round the loop
\* to get_auth, any other exception leaves gql_request, a response is read
\* as JSON (one of `answers`) and scanned.
GqlAfterRequest(answers) ==
    /\ gqlPc = "request" /\ reqPc = "done"
    /\ reqPc' = "idle"
    /\ IF reqResult = "RequestInvalid"
       THEN gqlPc' = "auth" /\ gqlOutcome' = "reauth" /\ gqlBatch' = <<>>
       ELSE IF reqResult # "response"
            THEN gqlPc' = "raised" /\ gqlOutcome' = reqResult /\ gqlBatch' = <<>>
            ELSE \E batch \in answers :
                     /\ gqlBatch' = batch
                     /\ gqlOutcome' = Scan(batch, 1)
                     /\ gqlPc' = CASE Scan(batch, 1) = "return" -> "returned"
                                   [] Scan(batch, 1) = "raise" -> "raised"
                                   [] OTHER -> "sleep"
    /\ UNCHANGED <<return_error, invalidate_after, close_requested, reqNow,
                   reqStatus, reqError, reqResult, reqHist>>

\* gql_request: asyncio.sleep(delay) is over.
GqlSleepDone ==
    /\ gqlPc = "sleep"
    /\ gqlPc' = "auth" /\ gqlBatch' = <<>> /\ gqlOutcome' = "none"
    /\ UNCHANGED <<reqPc, return_error, invalidate_after, close_requested, reqNow,
                   reqStatus, reqError, reqResult, reqHist>>

\* An attempt starts in this step.
AttemptStarts == reqPc' = "inflight" /\ reqPc # "inflight"

\* C11: request hands a response to its caller only when the status is
\* below 500 (4xx included) or return_error is set; a status of 500 or more
\* and a connection or timeout error each lead to the backoff wait and from
\* there to another attempt (unless close or the deadline ends the call); a
\* certificate error is raised to the caller at once.
C11_RetryPolicy ==
    /\ [](reqResult = "response" =>
              (reqStatus # 0 /\ (reqStatus < 500 \/ return_error)))
    /\ [][(reqPc = "inflight" /\ reqPc' # "inflight" /\ ~close_requested) =>
              /\ (reqError' = "none" /\ (reqStatus' < 500 \/ return_error))
                     => reqPc' = "reading"
              /\ (\/ reqError' \in {"connection", "timeout"}
                  \/ reqError' = "none" /\ reqStatus' >= 500 /\ ~return_error)
                     => (reqPc' = "backoff" /\ reqResult' = "none")
              /\ reqError' = "certificate"
                     => (reqPc' = "done" /\ reqResult' = "CertificateError")]_vars
    /\ [][(reqPc = "backoff" /\ reqPc' # "backoff") =>
              \/ reqPc' = "inflight"
              \/ reqResult' \in {"ExitRequest", "RequestInvalid"}]_vars

\* A 404 handed to a caller that did not set return_error, after a retry.
C11_Witness ==
    /\ reqResult = "response" /\ reqStatus = 404
    /\ ~return_error /\ reqHist.retried

\* gql_request has scanned a batch.
Scanned == gqlBatch # <<>>
WithErrors(batch) == {k \in 1..Len(batch) : batch[k].has_errors}
FirstWithErrors(batch) ==
    CHOOSE k \in WithErrors(batch) : \A l \in WithErrors(batch) : k <= l

\* C12 as stated: the batch is retried whenever any error of any response
\* is retryable, MinerException is raised when there are errors and none is
\* retryable, and the response is returned only when no response has errors.
C12_Original ==
    Scanned =>
        gqlOutcome =
            IF \E k \in WithErrors(gqlBatch) : HasRetryable(gqlBatch[k]) THEN "retry"
            ELSE IF WithErrors(gqlBatch) # {} THEN "raise" ELSE "return"

\* C12: the first response of the batch that has errors decides: the batch
\* is retried after the backoff sleep when one of that response's errors is
\* retryable, wherever it sits in that response's list, and MinerException
\* is raised when none is; the response is returned only when no response
\* of the batch has errors.
C12_FirstErrorsDecide ==
    Scanned =>
        /\ gqlOutcome =
               IF WithErrors(gqlBatch) = {} THEN "return"
               ELSE IF HasRetryable(gqlBatch[FirstWithErrors(gqlBatch)])
                    THEN "retry" ELSE "raise"
        /\ gqlOutcome = "return" => gqlPc = "returned"
        /\ gqlOutcome = "raise" => gqlPc = "raised"
        /\ gqlOutcome = "retry" => gqlPc = "sleep"

\* MinerException for a batch whose second response has a retryable error.
C12_Witness ==
    /\ Scanned /\ Len(gqlBatch) = 2 /\ gqlOutcome = "raise"
    /\ HasRetryable(gqlBatch[2])

C14_DeadlineStopsAttempts ==
    /\ [][AttemptStarts =>
              \A d \in invalidate_after' : reqNow' < d - SessionTimeout]_vars
    /\ [][(reqPc = "backoff" /\ reqPc' # "backoff" /\ ~close_requested
              /\ \E d \in invalidate_after : reqNow >= d - SessionTimeout)
              => reqResult' = "RequestInvalid"]_vars
    /\ [][(gqlPc = "request" /\ reqPc = "done" /\ reqResult = "RequestInvalid"
              /\ gqlPc' # gqlPc) => gqlPc' = "auth"]_vars

\* gql_request is back at get_auth after a RequestInvalid that request
\* raised on coming back from a backoff wait.
C14_Witness ==
    /\ gqlPc = "auth" /\ gqlOutcome = "reauth"
    /\ reqResult = "RequestInvalid" /\ reqHist.retried

\* ------------------------------------------------------------------------
\* Maintenance task: Twitch._maintenance_task, restarted by fetch_inventory
\* ------------------------------------------------------------------------

\* Last instant of the clock, in half hours.
MaxMntTime == 4
\* _maintenance_task: max_period (one hour), in half hours.
max_period == 2

Instants == 0..(MaxMntTime + 1)

MaintenanceInit ==
    /\ mntPc = "none"
    /\ mntNow = 0
    /\ mntTriggers = <<>>
    /\ mntRequested = {}
    /\ mntCancelled = FALSE
    /\ mntNextPeriod = 0

\* The end of DropsManager.fetch_inventory: the triggers are replaced by the
\* sorted future ones, a task that is not done is cancelled, a new task is
\* created.
FetchInventoryEnd(switch_triggers) ==
    /\ mntTriggers' = AscSeq({t \in switch_triggers : t > mntNow})
    /\ mntCancelled' = (mntPc = "created")
    /\ mntPc' = "created"
    /\ mntRequested' = {}
    /\ UNCHANGED <<mntNow, mntNextPeriod>>

\* _maintenance_task from its start to its end or its first suspension point.
\* The first pass of the loop evaluates self._mnt_triggers (client.py 652) on
\* the Twitch instance, which has no such attribute: the list belongs to
\* DropsManager (drops.py 46). The AttributeError ends the task.
MaintenanceRun ==
    /\ mntPc = "created"
    /\ LET started     == mntNow
           next_period == started + max_period
       IN  IF mntNow >= next_period
           THEN /\ mntPc' = "returned"
                /\ mntRequested' = mntRequested \cup {"INVENTORY_FETCH"}
           ELSE /\ mntPc' = "raised"
                /\ UNCHANGED mntRequested
    /\ mntNextPeriod' = mntNow + max_period
    /\ UNCHANGED <<mntNow, mntTriggers, mntCancelled>>

MntTick ==
    /\ mntNow < MaxMntTime
    /\ mntNow' = mntNow + 1
    /\ UNCHANGED <<mntPc, mntTriggers, mntRequested, mntCancelled, mntNextPeriod>>

\* C17: a maintenance task that ended without being cancelled has requested
\* INVENTORY_FETCH.
C17_EndRequestsReload ==
    mntPc \in {"returned", "raised"} => "INVENTORY_FETCH" \in mntRequested

\* C34: once the instant of a campaign trigger that lies before the reload
\* mark of the task has come, the task that ran has requested
\* CHANNELS_CLEANUP.
C34_CleanupAtTrigger ==
    (/\ mntPc \in {"returned", "raised"}
     /\ mntTriggers # <<>>
     /\ Head(mntTriggers) <= mntNow
     /\ Head(mntTriggers) < mntNextPeriod)
        => "CHANNELS_CLEANUP" \in mntRequested

\* ------------------------------------------------------------------------
\* Deep merge of two JSON trees: DropsManager._merge_data
\* ------------------------------------------------------------------------

\* Number of distinct integer leaves.
MaxLeaf == 2

JsonKeys == {"k1", "k2"}
EmptyMap == [k \in {} |-> 0]

\* A JSON value: its Python type, and its content as a leaf or as a map.
JsonLeaves ==
    {[type |-> "int", leaf |-> n, map |-> EmptyMap] : n \in 1..MaxLeaf}
        \cup {[type |-> "str", leaf |-> 1, map |-> EmptyMap]}
JsonDict(m) == [type |-> "dict", leaf |-> 0, map |-> m]

\* The maps of depth one and of depth two.
FlatMaps == UNION {[K -> JsonLeaves] : K \in SUBSET JsonKeys}
JsonMaps == UNION {[K -> JsonLeaves \cup {JsonDict(m) : m \in FlatMaps}] : K \in SUBSET JsonKeys}

\* _merge_data; the result says whether MinerException was raised.
RECURSIVE MergeSecondaryWins(_, _)
MergeSecondaryWins(primary_data, secondary_data) ==
    LET Entry(key) ==
            IF key \in DOMAIN primary_data /\ key \in DOMAIN secondary_data
            THEN LET vp == primary_data[key]
                     vs == secondary_data[key]
                 IN  IF vp.type # vs.type
                     THEN [raised |-> TRUE, value |-> vp]
                     ELSE IF vp.type = "dict"
                          THEN LET r == MergeSecondaryWins(vp.map, vs.map)
                               IN  [raised |-> r.raised, value |-> JsonDict(r.map)]
                          ELSE [raised |-> FALSE, value |-> vs]
            ELSE IF key \in DOMAIN primary_data
                 THEN [raised |-> FALSE, value |-> primary_data[key]]
                 ELSE [raised |-> FALSE, value |-> secondary_data[key]]
        keys == DOMAIN primary_data \cup DOMAIN secondary_data
    IN  IF \E key \in keys : Entry(key).raised
        THEN [raised |-> TRUE, map |-> EmptyMap]
        ELSE [raised |-> FALSE, map |-> [key \in keys |-> Entry(key).value]]

RECURSIVE MergeData(_, _)
MergeData(primary_data, secondary_data) ==
    LET Entry(key) ==
            IF key \in DOMAIN primary_data /\ key \in DOMAIN secondary_data
            THEN LET vp == primary_data[key]
                     vs == secondary_data[key]
                 IN  IF vp.type # vs.type
                     THEN [raised |-> TRUE, value |-> vp]
                     ELSE IF vp.type = "dict"
                          THEN LET r == MergeData(vp.map, vs.map)
                               IN  [raised |-> r.raised, value |-> JsonDict(r.map)]
                          ELSE [raised |-> FALSE, value |-> vp]
            ELSE IF key \in DOMAIN primary_data
                 THEN [raised |-> FALSE, value |-> primary_data[key]]
                 ELSE [raised |-> FALSE, value |-> secondary_data[key]]
        keys == DOMAIN primary_data \cup DOMAIN secondary_data
    IN  IF \E key \in keys : Entry(key).raised
        THEN [raised |-> TRUE, map |-> EmptyMap]
        ELSE [raised |-> FALSE, map |-> [key \in keys |-> Entry(key).value]]

NotMerged == [called |-> FALSE, raised |-> FALSE, map |-> EmptyMap]

MergeInit ==
    /\ mergePrimary \in JsonMaps
    /\ mergeSecondary = EmptyMap
    /\ merged = NotMerged

\* A caller passes primary_data and secondary_data to _merge_data.
MergeCall(secondary_data) ==
    /\ ~merged.called
    /\ mergeSecondary' = secondary_data
    /\ LET r == MergeData(mergePrimary, secondary_data)
       IN  merged' = [called |-> TRUE, raised |-> r.raised, map |-> r.map]
    /\ UNCHANGED mergePrimary

\* The two values under a key of both maps have different types, at the top
\* or inside two maps under the same key.
TypesDiffer(a, b) ==
    \E k \in DOMAIN a \cap DOMAIN b :
        \/ a[k].type # b[k].type
        \/ /\ a[k].type = "dict"
           /\ \E j \in DOMAIN a[k].map \cap DOMAIN b[k].map :
                  a[k].map[j].type # b[k].map[j].type

\* The value the merge of a and b holds under key k, for maps of leaves.
FlatMerged(a, b, k) == IF k \in DOMAIN a THEN a[k] ELSE b[k]

\* C22: merge(A, A) = A; merge(A, {}) = A; for disjoint key sets the merge is
\* the union; a key of both maps holds the merge of the two maps under it,
\* or else A's value; the call raises exactly when two values under the same
\* key have different types.
C22_MergeLaws ==
    merged.called =>
        LET a == mergePrimary
            b == mergeSecondary
            r == merged.map
        IN  /\ merged.raised <=> TypesDiffer(a, b)
            /\ a = b => (~merged.raised /\ r = a)
            /\ b = EmptyMap => (~merged.raised /\ r = a)
            /\ (DOMAIN a \cap DOMAIN b = {}) =>
                  /\ ~merged.raised
                  /\ DOMAIN r = DOMAIN a \cup DOMAIN b
                  /\ \A k \in DOMAIN a : r[k] = a[k]
                  /\ \A k \in DOMAIN b : r[k] = b[k]
            /\ ~merged.raised =>
                  /\ DOMAIN r = DOMAIN a \cup DOMAIN b
                  /\ \A k \in DOMAIN r :
                        IF k \in DOMAIN a /\ k \in DOMAIN b /\ a[k].type = "dict"
                        THEN /\ r[k].type = "dict"
                             /\ DOMAIN r[k].map = DOMAIN a[k].map \cup DOMAIN b[k].map
                             /\ \A j \in DOMAIN r[k].map :
                                    r[k].map[j] = FlatMerged(a[k].map, b[k].map, j)
                        ELSE r[k] = FlatMerged(a, b, k)

\* A merge of two maps that hold maps under the same key, with different
\* integers under a key of both inner maps.
C22_Witness ==
    /\ merged.called /\ ~merged.raised
    /\ \E k \in DOMAIN mergePrimary \cap DOMAIN mergeSecondary :
          /\ mergePrimary[k].type = "dict" /\ mergeSecondary[k].type = "dict"
          /\ \E j \in DOMAIN mergePrimary[k].map \cap DOMAIN mergeSecondary[k].map :
                 /\ mergePrimary[k].map[j] # mergeSecondary[k].map[j]
                 /\ merged.map[k].map[j] = mergePrimary[k].map[j]

\* ------------------------------------------------------------------------
\* GAMES_UPDATE under the four algorithms, with the clock it reads
\* ------------------------------------------------------------------------

\* Last instant of the clock GAMES_UPDATE reads.
MaxGamesTime == 3

AllAlgorithms == Algorithms \cup {"BALANCED", "ADAPTIVE"}

\* DropsCampaign.can_earn_within(next_hour), as far as the end of the
\* campaign goes: the campaign has not ended at the instant of the call.
CanEarnWithin(campaign, t) == campaign.ends_at > t

\* list(filter(self.filter_campaigns, campaigns)): wanted_games was cleared
\* just before, nothing is excluded by the settings.
FilterCampaigns(inv, t) == SelectSeq(inv, LAMBDA c : CanEarnWithin(c, t))

\* GAMES_UPDATE, BALANCED and ADAPTIVE: _calculate_weighted_priority and
\* _calculate_smart_priority return the user priority; any other game gets
\* -time_remaining, with the clock read again in every pass: reads[i].
RECURSIVE WantedTimedFrom(_, _, _, _, _)
WantedTimedFrom(filtered_campaigns, i, prios, wanted, reads) ==
    IF i > Len(filtered_campaigns) THEN wanted
    ELSE LET g == filtered_campaigns[i].game
             game_priority == IF g \in DOMAIN prios THEN prios[g] ELSE 0
             time_remaining == filtered_campaigns[i].ends_at - reads[i]
             key == IF game_priority # 0 THEN game_priority ELSE -time_remaining
             next == [x \in DOMAIN wanted \cup {g} |-> IF x = g THEN key ELSE wanted[x]]
         IN  WantedTimedFrom(filtered_campaigns, i + 1, prios, next, reads)

\* GAMES_UPDATE: wanted_games, the filter evaluated at instant t.
GamesUpdateWanted(algorithm, inv, plist, t, reads) ==
    LET filtered_campaigns == FilterCampaigns(inv, t)
    IN  IF algorithm \in {"BALANCED", "ADAPTIVE"}
        THEN WantedTimedFrom(filtered_campaigns, 1, Priorities(plist), NoGames, reads)
        ELSE WantedByAlgorithm(algorithm, filtered_campaigns, plist)

\* n successive reads of the clock from instant t on.
ClockReads(t, n) ==
    {r \in [1..n -> t..MaxGamesTime] : \A i \in 1..(n - 1) : r[i] <= r[i + 1]}

GamesInit ==
    /\ state = "GAMES_UPDATE"
    /\ state_change = FALSE
    /\ wake = FALSE
    /\ mainPc = "top"
    /\ full_cleanup = FALSE
    /\ wanted_games = NoGames
    /\ priority \in PriorityLists \cup {<<"A">>}
    /\ inventory \in Inventories
    /\ channels = <<>>
    /\ watching = NoChannel
    /\ tagged = {}
    /\ subscribed = {}
    /\ mainHist = MainHist0
    /\ priority_algorithm \in AllAlgorithms
    /\ gamesNow \in 0..MaxGamesTime

\* _run, State.GAMES_UPDATE, with the instants at which it reads the clock
ProcessGamesUpdateTimed(reads) ==
    /\ mainPc = "top" /\ state = "GAMES_UPDATE"
    /\ wanted_games' = GamesUpdateWanted(priority_algorithm, inventory, priority,
                                         gamesNow, reads)
    /\ gamesNow' = IF Len(reads) = 0 THEN gamesNow ELSE reads[Len(reads)]
    /\ full_cleanup' = TRUE
    /\ change_state("CHANNELS_CLEANUP")
    /\ mainPc' = "wait"
    /\ mainHist' = Processed("GAMES_UPDATE", FALSE, {})
    /\ UNCHANGED <<inventory, priority, channels, watching, tagged, subscribed,
                   priority_algorithm>>

GamesTick ==
    /\ gamesNow < MaxGamesTime
    /\ gamesNow' = gamesNow + 1
    /\ UNCHANGED <<mainVars, priority_algorithm>>

\* C23: after GAMES_UPDATE no wanted game that is absent from the priority
\* list has a positive key in wanted_games.
C23_NoPositiveKey ==
    mainHist.processed = "GAMES_UPDATE" =>
        \A g \in DOMAIN wanted_games :
            g \notin Range(priority) => wanted_games[g] <= 0

\* ------------------------------------------------------------------------
\* The launcher: run_app and main (app.py)
\* ------------------------------------------------------------------------

\* How many instances are started at the same time.
NumInstances == 2

\* How many times an instance that has exited is started again.
MaxLaunches == 2

Instances == 1..NumInstances

\* A lock_file that reports success whoever holds the lock.
lock_file_unchecked(holders) == TRUE

\* utils.lock_file(LOCK_PATH): opens the file and tries to take an exclusive,
\* non-blocking lock on it; the result says whether the lock was taken.
lock_file(holders) == holders = {}

AppInit ==
    /\ appPc = [i \in Instances |-> "run_app"]
    /\ lockHeld = {}
    /\ exitCode = [i \in Instances |-> <<>>]
    /\ loaded = {}
    /\ wrote = {}
    /\ launches = 0

\* run_app, lines 120-127: lock_file, then sys.exit(3) or asyncio.run(main()).
RunAppLock(i) ==
    /\ appPc[i] = "run_app"
    /\ IF lock_file(lockHeld)
       THEN /\ lockHeld' = lockHeld \cup {i}
            /\ appPc' = [appPc EXCEPT ![i] = "main"]
            /\ exitCode' = exitCode
       ELSE /\ lockHeld' = lockHeld
            /\ appPc' = [appPc EXCEPT ![i] = "finally"]
            /\ exitCode' = [exitCode EXCEPT ![i] = <<3>>]
    /\ UNCHANGED <<loaded, wrote, launches>>

\* main, lines 33-45: Settings(args) reads the settings file; when that
\* raises, the error is shown and the process exits with code 4.
MainSettings(i, raised) ==
    /\ appPc[i] = "main"
    /\ loaded' = loaded \cup {i}
    /\ IF raised
       THEN /\ appPc' = [appPc EXCEPT ![i] = "finally"]
            /\ exitCode' = [exitCode EXCEPT ![i] = <<4>>]
       ELSE /\ appPc' = [appPc EXCEPT ![i] = "client"]
            /\ exitCode' = exitCode
    /\ UNCHANGED <<lockHeld, wrote, launches>>

\* main, lines 68-104: the client runs until it stops, the window is closed,
\* client.save(force=True) writes settings and cookies, sys.exit(exit_status).
MainRun(i, exit_status) ==
    /\ appPc[i] = "client"
    /\ wrote' = wrote \cup {i}
    /\ appPc' = [appPc EXCEPT ![i] = "finally"]
    /\ exitCode' = [exitCode EXCEPT ![i] = <<exit_status>>]
    /\ UNCHANGED <<lockHeld, loaded, launches>>

\* An exception that main does not catch (raised in the finally block of
\* main, or a KeyboardInterrupt) leaves asyncio.run: nothing is saved and the
\* interpreter exits with code 1.
MainAbort(i) ==
    /\ appPc[i] \in {"main", "client"}
    /\ appPc' = [appPc EXCEPT ![i] = "finally"]
    /\ exitCode' = [exitCode EXCEPT ![i] = <<1>>]
    /\ UNCHANGED <<lockHeld, loaded, wrote, launches>>

\* run_app, lines 128-129: file.close() gives up the lock the file holds.
RunAppFinally(i) ==
    /\ appPc[i] = "finally"
    /\ lockHeld' = lockHeld \ {i}
    /\ appPc' = [appPc EXCEPT ![i] = "exited"]
    /\ UNCHANGED <<exitCode, loaded, wrote, launches>>

\* The user starts an instance that has exited once more.
Launch(i) ==
    /\ appPc[i] = "exited"
    /\ launches < MaxLaunches
    /\ launches' = launches + 1
    /\ appPc' = [appPc EXCEPT ![i] = "run_app"]
    /\ exitCode' = [exitCode EXCEPT ![i] = <<>>]
    /\ loaded' = loaded \ {i}
    /\ wrote' = wrote \ {i}
    /\ UNCHANGED lockHeld

\* C24: of the instances started at the same time at most one holds the lock
\* file; an instance that finds the lock taken exits with code 3 having
\* neither read nor written the settings or the cookies; only the holder of
\* the lock runs main; and an instance that has exited, on whatever path,
\* holds the lock no more.
C24_SingleInstance ==
    /\ [](/\ Cardinality(lockHeld) <= 1
          /\ \A i \in Instances :
                /\ appPc[i] \in {"main", "client"} => i \in lockHeld
                /\ exitCode[i] = <<3>> => i \notin loaded /\ i \notin wrote
                /\ appPc[i] = "exited" => i \notin lockHeld)
    /\ [][\A i \in Instances :
            (appPc[i] = "run_app" /\ appPc'[i] # "run_app" /\ lockHeld # {})
                => /\ exitCode'[i] = <<3>>
                   /\ appPc'[i] = "finally"
                   /\ lockHeld' = lockHeld]_vars

\* One instance has exited with code 3 while the other runs the client
\* holding the lock.
C24_Witness ==
    \E i, j \in Instances :
        /\ i # j
        /\ appPc[i] = "exited" /\ exitCode[i] = <<3>>
        /\ appPc[j] = "client" /\ j \in lockHeld

\* ------------------------------------------------------------------------
\* Settings: the settings map and its migration (settings.py)
\* ------------------------------------------------------------------------

\* The keys of the settings map that the migration reads or writes, with the
\* legacy key; JSON true and false are written "true" and "false".
SettingsKeys == {"priority_algorithm", "prioritize_by_ending_soonest", "unlinked_campaigns"}

KeyValues(k) ==
    IF k = "priority_algorithm"
    THEN {"LIST", "ADAPTIVE", "ENDING_SOONEST"}
    ELSE {"true", "false"}

NoSettings == [k \in {} |-> ""]

\* Every map a settings file can hold over these keys.
SettingsFiles ==
    UNION {{f \in [S -> {"LIST", "ADAPTIVE", "ENDING_SOONEST", "true", "false"}] :
                \A k \in S : f[k] \in KeyValues(k)} : S \in SUBSET SettingsKeys}

\* The environment variables __get_settings_from_env__ reads.
EnvNames == {"prioritize_by_ending_soonest", "UNLINKED_CAMPAIGNS"}

\* default_settings, lines 38-52, over the modelled keys.
default_settings == [priority_algorithm |-> "LIST", unlinked_campaigns |-> "false"]

\* utils.json_load(SETTINGS_PATH, default_settings): the map of the file;
\* when it fits the map to the defaults, keys the defaults lack are dropped
\* and keys the file lacks are filled in.
json_load(file, merge) ==
    IF merge
    THEN [k \in DOMAIN default_settings |->
            IF k \in DOMAIN file THEN file[k] ELSE default_settings[k]]
    ELSE file

\* d[k] = v
SetItem(d, k, v) == [x \in DOMAIN d \cup {k} |-> IF x = k THEN v ELSE d[x]]

\* del d[k]
DelItem(d, k) == [x \in DOMAIN d \ {k} |-> d[x]]

\* Settings.__get_settings_from_env__, lines 87-106.
GetSettingsFromEnv(m, env) ==
    LET m1 == IF "prioritize_by_ending_soonest" \in env
              THEN SetItem(m, "priority_algorithm", "ENDING_SOONEST")
              ELSE m
        m2 == IF "UNLINKED_CAMPAIGNS" \in env
              THEN SetItem(m1, "unlinked_campaigns", "true")
              ELSE m1
    IN  IF "priority_algorithm" \notin DOMAIN m2
        THEN IF "prioritize_by_ending_soonest" \in DOMAIN m2
             THEN DelItem(IF m2["prioritize_by_ending_soonest"] = "true"
                          THEN SetItem(m2, "priority_algorithm", "ENDING_SOONEST")
                          ELSE m2,
                          "prioritize_by_ending_soonest")
             ELSE SetItem(m2, "priority_algorithm", "LIST")
        ELSE m2

SettingsInit ==
    /\ settingsFile \in SettingsFiles
    /\ environ \in SUBSET EnvNames
    /\ jsonMerge \in BOOLEAN
    /\ settings = NoSettings
    /\ setPc = "unloaded"

\* Settings.__init__, lines 81-85.
SettingsLoad ==
    /\ setPc \in {"unloaded", "saved"}
    /\ settings' = GetSettingsFromEnv(json_load(settingsFile, jsonMerge), environ)
    /\ setPc' = "loaded"
    /\ UNCHANGED <<settingsFile, environ, jsonMerge>>

\* Settings.save(force=True), lines 135-137, at the end of main; the next
\* start of the program loads the file again.
SettingsSave ==
    /\ setPc = "loaded"
    /\ settingsFile' = settings
    /\ setPc' = "saved"
    /\ UNCHANGED <<settings, environ, jsonMerge>>

\* C25: after Settings has been loaded the legacy key is absent from the
\* settings map; if the file held the legacy key, priority_algorithm is
\* ENDING_SOONEST; and applying the migration once more changes nothing.
C25_LegacyMigrated ==
    setPc = "loaded" =>
        /\ "prioritize_by_ending_soonest" \notin DOMAIN settings
        /\ "prioritize_by_ending_soonest" \in DOMAIN settingsFile
            => /\ "priority_algorithm" \in DOMAIN settings
               /\ settings["priority_algorithm"] = "ENDING_SOONEST"
        /\ GetSettingsFromEnv(settings, environ) = settings

\* ------------------------------------------------------------------------
\* The drop-update future (streams.py) and WebsocketManager.process_drops
\* ------------------------------------------------------------------------

\* The `for attempt in range(8)` of the drop-claim handler.
CLAIM_POLLS == 8

\* What one watch cycle has seen: how the wait on the future ended, whether
\* CurrentDrop was fetched, whether the locally active drop was used, and
\* what the drop-progress handler did: results set on the cycle's future, a
\* set_result on a future that was done already, a message ignored.
DropHist0 ==
    [cause |-> "none", gql |-> FALSE, active |-> FALSE,
     results |-> 0, stale |-> FALSE, ignored |-> FALSE]

\* What the drop-claim handler has done for its message.
ClaimHist0 ==
    [known |-> FALSE, claimed |-> 0, last |-> "none", earnable |-> FALSE,
     restarted |-> 0, requested |-> 0]

DropsInit ==
    /\ dropPc = "send" /\ drop_update = "None" /\ futState = "none"
    /\ dropClock = 0 /\ dropHist = DropHist0
    /\ claimPc = "idle" /\ claimPolls = 0 /\ claimHist = ClaimHist0

ClaimKept == UNCHANGED <<claimPc, claimPolls, claimHist>>
CycleKept == UNCHANGED <<dropPc, drop_update, futState, dropClock, dropHist>>

\* send_watch() succeeded: self._drop_update = asyncio.Future(), and the
\* loop awaits it with a timeout.
InstallFuture ==
    /\ dropPc = "send"
    /\ drop_update' = "future" /\ futState' = "pending"
    /\ dropClock' = 0 /\ dropPc' = "await" /\ dropHist' = DropHist0
    /\ ClaimKept

\* Time passes while the future is pending.
DropTick ==
    /\ dropPc = "await" /\ futState = "pending"
    /\ dropClock < DROP_UPDATE_TIMEOUT
    /\ dropClock' = dropClock + 1
    /\ UNCHANGED <<dropPc, drop_update, futState, dropHist>>
    /\ ClaimKept

\* The timeout of wait_for fires: wait_for cancels the future it awaits; the
\* watch loop runs again in a later iteration of the event loop.
WaitTimesOut ==
    /\ dropPc = "await" /\ futState = "pending"
    /\ dropClock = DROP_UPDATE_TIMEOUT
    /\ futState' = "cancelled" /\ dropPc' = "timeout"
    /\ UNCHANGED <<drop_update, dropClock, dropHist>>
    /\ ClaimKept

TimeoutFetches == FALSE

\* `except asyncio.TimeoutError: handled = False; use_active = True`
TimeoutUsesActive == TRUE

\* wait_for raises TimeoutError in the watch loop, which resets the
\* attribute and falls to `if not handled`.
WaitRaises ==
    /\ dropPc = "timeout"
    /\ drop_update' = "None"
    /\ dropPc' = IF TimeoutUsesActive THEN "active" ELSE "gql"
    /\ dropHist' = [dropHist EXCEPT !.cause = "timeout"]
    /\ UNCHANGED <<futState, dropClock>>
    /\ ClaimKept

\* wait_for returns the result the handler has set.
WaitReturns ==
    /\ dropPc = "await" /\ futState \in {"True", "False"}
    /\ drop_update' = "None"
    /\ IF futState = "True"
       THEN /\ dropPc' = "sleep"
            /\ dropHist' = [dropHist EXCEPT !.cause = "handled"]
       ELSE /\ dropPc' = "gql"
            /\ dropHist' = [dropHist EXCEPT !.cause = "unrelated"]
    /\ UNCHANGED <<futState, dropClock>>
    /\ ClaimKept

\* What the CurrentDrop query of the watch loop can answer: no drop data, a
\* drop the inventory does not know (which also requests INVENTORY_FETCH),
\* a drop that cannot be earned on the watched channel, or one that can.
CurrentDropAnswers == {"no data", "unknown", "unearnable", "earnable"}

\* `if not use_active`: the GQL answer; all but the last fall back.
CurrentDropAnswer(answer) ==
    /\ dropPc = "gql"
    /\ dropPc' = IF answer = "earnable" THEN "sleep" ELSE "active"
    /\ dropHist' = [dropHist EXCEPT !.gql = TRUE]
    /\ UNCHANGED <<drop_update, futState, dropClock>>
    /\ ClaimKept

\* `if use_active`: the locally computed active drop.
UseActiveDrop ==
    /\ dropPc = "active"
    /\ dropPc' = "sleep"
    /\ dropHist' = [dropHist EXCEPT !.active = TRUE]
    /\ UNCHANGED <<drop_update, futState, dropClock>>
    /\ ClaimKept

\* _watch_sleep is over; the next cycle begins.
CycleEnds ==
    /\ dropPc = "sleep"
    /\ dropPc' = "send"
    /\ UNCHANGED <<drop_update, futState, dropClock, dropHist>>
    /\ ClaimKept

\* Future.set_result: raises InvalidStateError unless the future is pending.
set_result(fut, value) ==
    IF fut = "pending"
    THEN [state |-> IF value THEN "True" ELSE "False", raised |-> FALSE]
    ELSE [state |-> fut, raised |-> TRUE]

\* process_drops, "drop-progress": `expected` is whether the drop is known
\* and can be earned on the watched channel.  The handler does not suspend
\* between reading the attribute and setting the result.
DropProgress(expected) ==
    /\ IF drop_update = "None"
       THEN /\ dropHist' = [dropHist EXCEPT !.ignored = TRUE]
            /\ UNCHANGED <<drop_update, futState>>
       ELSE LET r == set_result(futState, expected) IN
            /\ futState' = r.state
            /\ drop_update' = IF r.raised THEN drop_update ELSE "None"
            /\ dropHist' = IF r.raised
                           THEN [dropHist EXCEPT !.stale = TRUE]
                           ELSE [dropHist EXCEPT !.results = Min(2, @ + 1)]
    /\ UNCHANGED <<dropPc, dropClock>>
    /\ ClaimKept

\* process_drops, "drop-claim": an unknown drop id is logged and the handler
\* returns; a known drop is claimed.
DropClaim(known) ==
    /\ claimPc = "idle"
    /\ claimHist' = [ClaimHist0 EXCEPT !.known = known]
    /\ claimPc' = IF known THEN "claim" ELSE "done"
    /\ claimPolls' = 0
    /\ CycleKept

\* drop.update_claim(...); await drop.claim(); await asyncio.sleep(4)
ClaimDrop ==
    /\ claimPc = "claim"
    /\ claimHist' = [claimHist EXCEPT !.claimed = Min(2, @ + 1)]
    /\ claimPc' = "poll"
    /\ UNCHANGED claimPolls
    /\ CycleKept

\* What a CurrentDrop query of the claim handler can answer: no current
\* drop, the drop just claimed, or another drop.
PollAnswers == {"none", "same", "other"}

\* The loop ends on `break` or when range(8) is used up.
PollEndsExhausted(answer, n) == n = CLAIM_POLLS

PollEnds(answer, n) == answer # "same" \/ n = CLAIM_POLLS

\* One iteration of the polling loop.
PollCurrentDrop(answer) ==
    /\ claimPc = "poll" /\ claimPolls < CLAIM_POLLS
    /\ claimPolls' = claimPolls + 1
    /\ claimHist' = [claimHist EXCEPT !.last = answer]
    /\ claimPc' = IF PollEnds(answer, claimPolls + 1) THEN "decide" ELSE "poll"
    /\ CycleKept

\* After the loop: restart_watching() if the campaign can be earned on the
\* watched channel, else change_state(State.INVENTORY_FETCH); return.
ClaimDecide(can_earn) ==
    /\ claimPc = "decide"
    /\ claimHist' = IF can_earn
                    THEN [claimHist EXCEPT !.earnable = TRUE, !.restarted = Min(2, @ + 1)]
                    ELSE [claimHist EXCEPT !.requested = Min(2, @ + 1)]
    /\ claimPc' = "done"
    /\ UNCHANGED claimPolls
    /\ CycleKept

\* The handler has returned; the next drop-claim message can be handled.
ClaimReturns ==
    /\ claimPc = "done"
    /\ claimPc' = "idle"
    /\ UNCHANGED <<claimPolls, claimHist>>
    /\ CycleKept

LifeHist0 ==
    [fresh |-> TRUE, stopped |-> FALSE, restarted |-> FALSE,
     lastEnd |-> "none", lastClosed |-> FALSE]

\* Websocket.__init__
LifeInit ==
    /\ handlePc = "none" /\ handle_task = "None" /\ closed = FALSE
    /\ wsConn = "none" /\ state_lock = "free" /\ lifeHist = LifeHist0

\* Task.done()
done(pc) == pc \in {"returned", "cancelled"}

\* Websocket.start_nowait: a task is created unless one is still running.
start_nowait ==
    IF handle_task = "None" \/ done(handlePc)
    THEN handlePc' = "login" /\ handle_task' = "task"
    ELSE UNCHANGED <<handlePc, handle_task>>

\* WebsocketPool.add_topics starts the connection it has just created.
StartNowait ==
    /\ lifeHist.fresh
    /\ start_nowait
    /\ lifeHist' = [lifeHist EXCEPT !.fresh = FALSE]
    /\ UNCHANGED <<closed, wsConn, state_lock>>

\* Websocket.start takes the lock, calls start_nowait and waits until the
\* connection is connected.
StartEnter ==
    /\ state_lock = "free"
    /\ state_lock' = "start"
    /\ start_nowait
    /\ lifeHist' = [lifeHist EXCEPT !.fresh = FALSE, !.stopped = FALSE,
                                    !.restarted = lifeHist.stopped \/ @]
    /\ UNCHANGED <<closed, wsConn>>

\* wait_until_connected() returns; the lock is released.
StartReturns ==
    /\ state_lock = "start" /\ wsConn # "none"
    /\ state_lock' = "free"
    /\ UNCHANGED <<handlePc, handle_task, closed, wsConn, lifeHist>>

\* _handle: wait_until_login() has returned; self._closed.clear().
HandleBegins ==
    /\ handle_task = "task" /\ handlePc = "login"
    /\ closed' = FALSE
    /\ handlePc' = "connecting"
    /\ UNCHANGED <<handle_task, wsConn, state_lock, lifeHist>>

\* _backoff_connect yields a websocket: self._ws.set(websocket).
HandleConnects ==
    /\ handle_task = "task" /\ handlePc = "connecting"
    /\ wsConn' = "open"
    /\ handlePc' = "loop"
    /\ UNCHANGED <<handle_task, closed, state_lock, lifeHist>>

\* _backoff_connect leaves its loop on RuntimeError (the session is closed):
\* the handler returns.
BackoffBreaks ==
    /\ handle_task = "task" /\ handlePc = "connecting"
    /\ handlePc' = "returned"
    /\ UNCHANGED <<handle_task, closed, wsConn, state_lock, lifeHist>>

\* What _gather_recv raises WebsocketClosed for: a CLOSE frame of the server
\* (received=True), a websocket that is closed, an error.
ClosedKinds == {"CLOSE", "CLOSED", "ERROR"}

received(kind) == kind = "CLOSE"

\* `except WebsocketClosed as exc`: whether the handler returns.
ExitsFlagFirst(kind, flag) == flag

ExitsOnClosed(kind, flag) == ~received(kind) /\ flag

\* The receive loop ends with WebsocketClosed: the `finally` clears _ws, and
\* the handler returns or goes on to reconnect.
RecvEndsClosed(kind) ==
    /\ handle_task = "task" /\ handlePc = "loop"
    /\ wsConn' = "none"
    /\ handlePc' = IF ExitsOnClosed(kind, closed) THEN "returned" ELSE "connecting"
    /\ lifeHist' = [lifeHist EXCEPT !.lastEnd = kind, !.lastClosed = closed]
    /\ UNCHANGED <<handle_task, closed, state_lock>>

\* The loop ends because a reconnect was requested, or with an exception
\* that is not WebsocketClosed (a send on a websocket that is closing).
LoopEndsOther ==
    /\ handle_task = "task" /\ handlePc = "loop"
    /\ wsConn' = "none"
    /\ handlePc' = "connecting"
    /\ lifeHist' = [lifeHist EXCEPT !.lastEnd = "other", !.lastClosed = closed]
    /\ UNCHANGED <<handle_task, closed, state_lock>>

\* The end of stop(): the lock is released.
StopReturns ==
    /\ state_lock' = "free"
    /\ lifeHist' = [lifeHist EXCEPT !.fresh = FALSE, !.stopped = TRUE]

\* Websocket.stop up to its first await: the flag, then ws.close() or the
\* wait for the handler task.
StopEnter ==
    /\ state_lock = "free"
    /\ IF closed
       THEN /\ StopReturns
            /\ UNCHANGED <<handlePc, handle_task, closed, wsConn>>
       ELSE /\ closed' = TRUE
            /\ IF wsConn # "none"
               THEN /\ wsConn' = "closing"
                    /\ state_lock' = "stop: close"
                    /\ lifeHist' = [lifeHist EXCEPT !.fresh = FALSE]
               ELSE /\ UNCHANGED wsConn
                    /\ IF handle_task = "task"
                       THEN /\ state_lock' = "stop: wait"
                            /\ lifeHist' = [lifeHist EXCEPT !.fresh = FALSE]
                       ELSE StopReturns
            /\ UNCHANGED <<handlePc, handle_task>>

\* ws.close() has returned.
StopClosed ==
    /\ state_lock = "stop: close"
    /\ IF handle_task = "task"
       THEN /\ state_lock' = "stop: wait"
            /\ UNCHANGED lifeHist
       ELSE StopReturns
    /\ UNCHANGED <<handlePc, handle_task, closed, wsConn>>

\* wait_for(self._handle_task, timeout=2) at its timeout: the task is
\* cancelled, and wait_for returns once the cancellation has gone through.
TimeoutLeaves(pc) == pc

TimeoutCancels(pc) == "cancelled"

\* The wait for the handler task ends: the task is done, or the two seconds
\* are over; self._handle_task = None.
StopWaitEnds ==
    /\ state_lock = "stop: wait"
    /\ IF done(handlePc)
       THEN UNCHANGED <<handlePc, wsConn>>
       ELSE /\ handlePc' = TimeoutCancels(handlePc)
            /\ wsConn' = IF done(handlePc') THEN "none" ELSE wsConn
    /\ handle_task' = "None"
    /\ StopReturns
    /\ UNCHANGED closed

\* The handler task is running.
Alive == handle_task = "task" /\ ~done(handlePc)

\* C35 as stated, last sentence: once stop() has set the close flag the
\* handler does not go on to reconnect.
C35_Original ==
    [][(closed /\ handlePc = "loop") => handlePc' # "connecting"]_vars

\* C35: when the receive loop ends with WebsocketClosed the handler
\* reconnects if the remote side closed (received=True), also when stop()
\* has set the close flag; otherwise it returns, leaving the connection
\* disconnected, if the close flag is set, and reconnects if it is not.
C35_ClosedOutcome ==
    [][\A kind \in ClosedKinds :
          RecvEndsClosed(kind) =>
              /\ wsConn' = "none"
              /\ IF received(kind) \/ ~closed
                 THEN handlePc' = "connecting"
                 ELSE handlePc' = "returned"]_vars

\* The remote close arrived after stop() had set the flag, and the handler
\* is about to connect again.
C35_Witness ==
    /\ lifeHist.lastEnd = "CLOSE" /\ lifeHist.lastClosed
    /\ handlePc = "connecting" /\ closed

\* C36: after stop() has returned, and until start is called, the handler
\* task is not running and the connection is not connected, also on a
\* connection that was stopped and started again; a stop() on a stopped
\* connection leaves the handler task and the connection as they are.
C36_StoppedStaysStopped ==
    /\ [](lifeHist.stopped => (~Alive /\ wsConn = "none"))
    /\ [][(lifeHist.stopped /\ StopEnter) =>
              UNCHANGED <<handlePc, handle_task, wsConn>>]_vars

\* A connection that was stopped, started again and connected, and then
\* stopped by a stop() that had to cancel the handler task.
C36_Witness ==
    /\ lifeHist.stopped /\ lifeHist.restarted
    /\ handlePc = "cancelled" /\ lifeHist.lastEnd = "other"

\* ------------------------------------------------------------------------
\* The device-code login: _AuthState._oauth_login
\* ------------------------------------------------------------------------

\* The clock stops at MaxOauthTime; a device code lasts ExpiresIn ticks; the
\* server issues at most MaxCodes codes.
MaxOauthTime == 5
ExpiresIn == 2
MaxCodes == 3

\* The two forms _oauth_login builds, by their keys.
DevicePayload == {"client_id", "scopes"}
TokenPayload == {"client_id", "device_code", "grant_type"}
NoPayload == {}

\* What has been seen: the form of the last POST to /oauth2/device, the
\* number of such POSTs (saturating) and whether the flow has restarted.
OauthHist0 == [devicePayload |-> NoPayload, devicePosts |-> 0, restarted |-> FALSE]

\* _oauth_login is called: `payload` is the device form.
OauthInit ==
    /\ oauthPc = "device" /\ payload = DevicePayload
    /\ device_code = 0 /\ expires_at = 0 /\ oauthNow = 0
    /\ oauthHist = OauthHist0

\* POST /oauth2/device with `payload`.  The server answers the device form
\* with a new device code and user code; what it answers to another form is
\* its own business: codes all the same (answered), or a body without
\* "device_code", on which response_json["device_code"] raises KeyError.
DevicePost(answered) ==
    /\ oauthPc = "device" /\ device_code < MaxCodes
    /\ oauthHist' = [oauthHist EXCEPT !.devicePayload = payload,
                                      !.devicePosts = Min(2, @ + 1)]
    /\ IF payload = DevicePayload \/ answered
       THEN /\ device_code' = device_code + 1
            /\ expires_at' = oauthNow + ExpiresIn
            /\ oauthPc' = "ask"
       ELSE /\ oauthPc' = "raised"
            /\ UNCHANGED <<device_code, expires_at>>
    /\ UNCHANGED <<payload, oauthNow>>

\* ask_enter_code(user_code), then `payload` becomes the token-grant form.
AskEnterCode ==
    /\ oauthPc = "ask"
    /\ payload' = TokenPayload
    /\ oauthPc' = "poll"
    /\ UNCHANGED <<device_code, expires_at, oauthNow, oauthHist>>

\* POST /oauth2/token with invalidate_after=expires_at: request raises
\* RequestInvalid once the code has expired, and the outer loop starts over;
\* 200 ends the login, any other status polls again.
TokenPoll(status) ==
    /\ oauthPc = "poll"
    /\ IF oauthNow >= expires_at
       THEN /\ oauthPc' = "device"
            /\ oauthHist' = [oauthHist EXCEPT !.restarted = TRUE]
       ELSE /\ oauthPc' = IF status = 200 THEN "done" ELSE "poll"
            /\ UNCHANGED oauthHist
    /\ UNCHANGED <<payload, device_code, expires_at, oauthNow>>

\* _login calls _oauth_login again after a login that did not validate.
OauthCall ==
    /\ oauthPc \in {"done", "raised"}
    /\ oauthPc' = "device" /\ payload' = DevicePayload
    /\ oauthHist' = OauthHist0
    /\ UNCHANGED <<device_code, expires_at, oauthNow>>

OauthTick ==
    /\ oauthNow < MaxOauthTime
    /\ oauthNow' = oauthNow + 1
    /\ UNCHANGED <<oauthPc, payload, device_code, expires_at, oauthHist>>

\* C40: every POST to /oauth2/device, the one of a restart included, carries
\* the device form {client_id, scopes}.
C40_DevicePayload ==
    oauthHist.devicePosts > 0 => oauthHist.devicePayload = DevicePayload

\* ------------------------------------------------------------------------
\* Specifications
\* ------------------------------------------------------------------------

PoolRest ==
    /\ websockets = <<>>
    /\ poolCall = [op |-> "none", topics |-> {}, raised |-> FALSE, recycled |-> {}]

ConnRest ==
    /\ wsPc = "connecting" /\ topics = {} /\ submitted = {}
    /\ topics_changed = FALSE /\ reconnect_requested = FALSE
    /\ next_ping = 0 /\ max_pong = 0 /\ now = 0 /\ current = {} /\ delta = {}
    /\ pingPending = FALSE /\ pongQueued = FALSE /\ wsHist = WsHist0

MainRest == MainInit /\ priority = <<>>

InvRest == InvInit

AuthRest == AuthInit /\ jarToken = Unset

WatchRest == WatchInit

ReqRest == RequestInit

MntRest == MaintenanceInit

AlgoRest == priority_algorithm = "LIST"

GamesRest == gamesNow = 0

AppRest == AppInit

DropRest == DropsInit

LifeRest == LifeInit

OauthRest == OauthInit

SetRest ==
    /\ settingsFile = NoSettings /\ environ = {} /\ jsonMerge = FALSE
    /\ settings = NoSettings /\ setPc = "unloaded"

MergeRest ==
    /\ mergePrimary = EmptyMap /\ mergeSecondary = EmptyMap /\ merged = NotMerged

PoolOnly == UNCHANGED <<connVars, mainVars, invVars, authVars, watchVars, reqVars, mntVars, algoVars, mergeVars, gamesVars, appVars, setVars, dropVars, lifeVars, oauthVars>>
ConnOnly == UNCHANGED <<poolVars, mainVars, invVars, authVars, watchVars, reqVars, mntVars, algoVars, mergeVars, gamesVars, appVars, setVars, dropVars, lifeVars, oauthVars>>
MainOnly == UNCHANGED <<poolVars, connVars, invVars, authVars, watchVars, reqVars, mntVars, algoVars, mergeVars, gamesVars, appVars, setVars, dropVars, lifeVars, oauthVars>>
\* fetch_inventory and its readers touch the inventory list and nothing else
\* of the client.
InvOnly ==
    UNCHANGED <<poolVars, connVars, state, state_change, wake, mainPc, full_cleanup,
                wanted_games, priority, channels, watching, tagged, subscribed, mainHist,
                authVars, watchVars, reqVars, mntVars, algoVars, mergeVars, gamesVars, appVars, setVars, dropVars, lifeVars, oauthVars>>
ReqOnly == UNCHANGED <<poolVars, connVars, mainVars, invVars, authVars, watchVars, mntVars,
                        algoVars, mergeVars, gamesVars, appVars, setVars, dropVars, lifeVars, oauthVars>>
MntOnly == UNCHANGED <<poolVars, connVars, mainVars, invVars, authVars, watchVars, reqVars,
                        algoVars, mergeVars, gamesVars, appVars, setVars, dropVars, lifeVars, oauthVars>>
AlgoOnly == UNCHANGED <<poolVars, connVars, mainVars, invVars, authVars, watchVars, reqVars,
                         mntVars, mergeVars, gamesVars, appVars, setVars, dropVars, lifeVars, oauthVars>>
MergeOnly == UNCHANGED <<poolVars, connVars, mainVars, invVars, authVars, watchVars, reqVars,
                          mntVars, algoVars, gamesVars, appVars, setVars, dropVars, lifeVars, oauthVars>>
\* GAMES_UPDATE with its clock reads: the main loop's variables, the
\* algorithm setting and the clock.
GamesOnly == UNCHANGED <<poolVars, connVars, invVars, authVars, watchVars, reqVars,
                          mntVars, mergeVars, appVars, setVars, dropVars, lifeVars, oauthVars>>
AuthOnly == UNCHANGED <<poolVars, connVars, mainVars, invVars, watchVars, reqVars, mntVars, algoVars, mergeVars, gamesVars, appVars, setVars, dropVars, lifeVars, oauthVars>>
\* The watch loop shares the watched-channel slot with the main loop.
WatchOnly ==
    UNCHANGED <<poolVars, connVars, invVars, authVars, state, state_change, wake,
                mainPc, full_cleanup, wanted_games, inventory, priority, channels,
                subscribed, mainHist, reqVars, mntVars, algoVars, mergeVars, gamesVars, appVars, setVars, dropVars, lifeVars, oauthVars>>

\* The pool under any sequence of add_topics and remove_topics calls.
InitPool == PoolInit /\ ConnRest /\ MainRest /\ InvRest /\ AuthRest /\ WatchRest /\ ReqRest /\ MntRest /\ AlgoRest /\ MergeRest /\ GamesRest /\ AppRest /\ SetRest /\ DropRest /\ LifeRest /\ OauthRest

PoolNext ==
    \/ PoolOnly /\ \E ts \in SUBSET PoolTopics : add_topics(ts)
    \/ PoolOnly /\ \E names \in SUBSET PoolTopics : remove_topics(names)

SpecPool == InitPool /\ [][PoolNext]_vars

\* The connection with a changing topic table, over the last PING_TIMEOUT
\* ticks of the clock.
InitConn ==
    ConnInit(MaxTime - PING_TIMEOUT) /\ PoolRest /\ MainRest /\ InvRest /\ AuthRest /\ WatchRest /\ ReqRest /\ MntRest /\ AlgoRest /\ MergeRest /\ GamesRest /\ AppRest /\ SetRest /\ DropRest /\ LifeRest /\ OauthRest

ConnNext ==
    \/ ConnOnly /\ Connect
    \/ ConnOnly /\ Tick
    \/ ConnOnly /\ \E sent \in BOOLEAN : HandlePing(sent)
    \/ ConnOnly /\ HandleTopicsBegin
    \/ ConnOnly /\ \E sent \in BOOLEAN : HandleTopicsDiff(sent)
    \/ ConnOnly /\ \E sent \in BOOLEAN : HandleTopicsAfterUnlisten(sent)
    \/ ConnOnly /\ HandleTopicsAfterListen
    \/ ConnOnly /\ \E extra \in RecvExtras, end \in RecvEnds : HandleRecv(extra, end)
    \/ ConnOnly /\ ServerPong
    \/ ConnOnly /\ \E new \in SUBSET ConnTopics : TopicsChange(new)

SpecConn == InitConn /\ [][ConnNext]_vars

\* The handler task takes its next step whenever it can: each of its awaits
\* returns or raises.
HandlerStep ==
    \/ ConnOnly /\ \E sent \in BOOLEAN : HandlePing(sent)
    \/ ConnOnly /\ HandleTopicsBegin
    \/ ConnOnly /\ \E sent \in BOOLEAN : HandleTopicsDiff(sent)
    \/ ConnOnly /\ \E sent \in BOOLEAN : HandleTopicsAfterUnlisten(sent)
    \/ ConnOnly /\ HandleTopicsAfterListen
    \/ ConnOnly /\ \E extra \in RecvExtras, end \in RecvEnds : HandleRecv(extra, end)

SpecConnLive == InitConn /\ [][ConnNext]_vars /\ WF_vars(HandlerStep)

\* The connection with a fixed topic table, from clock 0 on.
InitPing == ConnInit(0) /\ PoolRest /\ MainRest /\ InvRest /\ AuthRest /\ WatchRest /\ ReqRest /\ MntRest /\ AlgoRest /\ MergeRest /\ GamesRest /\ AppRest /\ SetRest /\ DropRest /\ LifeRest /\ OauthRest

PingNext ==
    \/ ConnOnly /\ Connect
    \/ ConnOnly /\ Tick
    \/ ConnOnly /\ \E sent \in BOOLEAN : HandlePing(sent)
    \/ ConnOnly /\ HandleTopicsBegin
    \/ ConnOnly /\ \E sent \in BOOLEAN : HandleTopicsDiff(sent)
    \/ ConnOnly /\ HandleTopicsAfterListen
    \/ ConnOnly /\ \E extra \in RecvExtras, end \in RecvEnds : HandleRecv(extra, end)
    \/ ConnOnly /\ ServerPong

SpecPing == InitPing /\ [][PingNext]_vars

\* The client from its start. change_state leaves the event cleared, so the
\* main loop is released only by the states other tasks request: it never
\* gets to process GAMES_UPDATE, CHANNELS_FETCH, IDLE or EXIT, the registry
\* stays empty and no channel update arrives.
InitMain == MainInit /\ PoolRest /\ ConnRest /\ InvRest /\ AuthRest /\ WatchRest /\ ReqRest /\ MntRest /\ AlgoRest /\ MergeRest /\ GamesRest /\ AppRest /\ SetRest /\ DropRest /\ LifeRest /\ OauthRest

MainNext ==
    \/ MainOnly /\ MainWait
    \/ MainOnly /\ ProcessInventoryFetch
    \/ MainOnly /\ \E inv \in Inventories : InventoryFetched(inv)
    \/ MainOnly /\ ProcessChannelsCleanup
    \/ MainOnly /\ ProcessChannelSwitch(NoChannel.id)
    \/ MainOnly /\ \E s \in RequestedStates : RequestState(s)

SpecMain == InitMain /\ [][MainNext]_vars

\* The handlers of the main loop, each entered with the state it processes
\* as if the loop had been released for it, and the channel updates.
InitLoop == LoopInit /\ PoolRest /\ ConnRest /\ InvRest /\ AuthRest /\ WatchRest /\ ReqRest /\ MntRest /\ AlgoRest /\ MergeRest /\ GamesRest /\ AppRest /\ SetRest /\ DropRest /\ LifeRest /\ OauthRest

LoopNext ==
    \/ MainOnly /\ MainWait
    \/ MainOnly /\ ProcessIdle
    \/ MainOnly /\ ProcessInventoryFetch
    \/ MainOnly /\ \E inv \in Inventories : InventoryFetched(inv)
    \/ MainOnly /\ ProcessGamesUpdate
    \/ MainOnly /\ ProcessChannelsCleanup
    \/ MainOnly /\ \E live \in [DirIds -> Games \cup {Offline}] : ProcessChannelsFetch(live)
    \/ MainOnly /\ \E selected \in {NoChannel.id} \cup Ids(channels) : ProcessChannelSwitch(selected)
    \/ MainOnly /\ ProcessExit
    \/ MainOnly /\ \E s \in RequestedStates : RequestState(s)
    \/ MainOnly /\ \E id \in ChannelIds, st \in Streams : ChannelUpdate(id, st)

SpecLoop == InitLoop /\ [][LoopNext]_vars

\* fetch_inventory, run again and again by the main loop, and the tasks
\* that read the inventory at its suspension points.
InitInv == InvInit /\ MainRest /\ PoolRest /\ ConnRest /\ AuthRest /\ WatchRest /\ ReqRest /\ MntRest /\ AlgoRest /\ MergeRest /\ GamesRest /\ AppRest /\ SetRest /\ DropRest /\ LifeRest /\ OauthRest

InvNext ==
    \/ InvOnly /\ FetchBegin
    \/ InvOnly /\ \E new \in Inventories : FetchBuilt(new)
    \/ InvOnly /\ CampaignAdded
    \/ InvOnly /\ \E op \in {"get_drop", "get_active_drop"} : Read(op)

SpecInv == InitInv /\ [][InvNext]_vars

\* The tasks of the client calling validate() at any time, with or without
\* a restored cookie, and the platform's answers.
InitAuth == AuthInit /\ PoolRest /\ ConnRest /\ MainRest /\ InvRest /\ WatchRest /\ ReqRest /\ MntRest /\ AlgoRest /\ MergeRest /\ GamesRest /\ AppRest /\ SetRest /\ DropRest /\ LifeRest /\ OauthRest

AuthNext ==
    \/ AuthOnly /\ \E t \in AuthTasks : Call(t)
    \/ AuthOnly /\ \E t \in AuthTasks : Resume(t)
    \/ AuthOnly /\ \E t \in AuthTasks, dev \in DeviceIds : DeviceAnswer(t, dev)
    \/ AuthOnly /\ \E t \in AuthTasks, tok \in Tokens : OauthAnswer(t, tok)
    \/ AuthOnly /\ \E t \in AuthTasks, status \in {200, 401, 500},
                      own_client \in BOOLEAN, uid \in UserIds :
                      CheckAnswer(t, status, own_client, uid)

SpecAuth == InitAuth /\ [][AuthNext]_vars

\* The main loop at rest after CHANNEL_SWITCH, with a registry of two
\* channels that can be watched.
WatchedInit ==
    /\ state = "CHANNEL_SWITCH" /\ state_change = FALSE /\ wake = FALSE
    /\ mainPc = "wait" /\ full_cleanup = FALSE
    /\ priority = <<"B", "A">> /\ inventory = <<CampA, CampB>>
    /\ wanted_games = WantedAfterUpdate(inventory, priority)
    /\ channels = <<Channel(1, "A", TRUE), Channel(2, "B", FALSE)>>
    /\ watching = NoChannel /\ tagged = {}
    /\ subscribed = ChannelTopics(Ids(channels))
    /\ mainHist = MainHist0

\* The watch loop, the main loop switching the watched channel, and
\* restarts raised at any time.
InitWatch == WatchInit /\ WatchedInit /\ PoolRest /\ ConnRest /\ InvRest /\ AuthRest /\ ReqRest /\ MntRest /\ AlgoRest /\ MergeRest /\ GamesRest /\ AppRest /\ SetRest /\ DropRest /\ LifeRest /\ OauthRest

WatchNext ==
    \/ WatchOnly /\ WatchGet
    \/ WatchOnly /\ \E succeeded, repeat_now \in BOOLEAN : SendWatch(succeeded, repeat_now)
    \/ WatchOnly /\ \E handled \in BOOLEAN : DropUpdate(handled)
    \/ WatchOnly /\ GqlAnswer
    \/ WatchOnly /\ WatchTick
    \/ WatchOnly /\ SleepWake
    \/ WatchOnly /\ RestartWatching
    \/ WatchOnly /\ \E ch \in Range(channels) : Watch(ch)
    \/ WatchOnly /\ StopWatching

SpecWatch == InitWatch /\ [][WatchNext]_vars

\* request called directly and through gql_request, with any deadline,
\* while time passes and close can be requested.
InitRequest ==
    RequestInit /\ PoolRest /\ ConnRest /\ MainRest /\ InvRest /\ AuthRest /\ WatchRest /\ MntRest /\ AlgoRest /\ MergeRest /\ GamesRest /\ AppRest /\ SetRest /\ DropRest /\ LifeRest /\ OauthRest

RequestNext ==
    \/ ReqOnly /\ \E re \in BOOLEAN, ia \in Deadlines : RequestCall(re, ia)
    \/ ReqOnly /\ \E status \in Statuses : ResponseAnswer(status)
    \/ ReqOnly /\ \E error \in RequestErrors : ErrorAnswer(error)
    \/ ReqOnly /\ ClosedInFlight
    \/ ReqOnly /\ ReadDone
    \/ ReqOnly /\ BackoffEnd
    \/ ReqOnly /\ CloseRequest
    \/ ReqOnly /\ ReqTick
    \/ ReqOnly /\ GqlCall
    \/ ReqOnly /\ \E ia \in Deadlines : GqlRequest(ia)
    \/ ReqOnly /\ GqlAfterRequest(BatchSamples)
    \/ ReqOnly /\ GqlSleepDone

SpecRequest == InitRequest /\ [][RequestNext]_vars

\* gql_request over every batch the endpoint can answer with.
InitGql ==
    RequestInit /\ PoolRest /\ ConnRest /\ MainRest /\ InvRest /\ AuthRest /\ WatchRest /\ MntRest /\ AlgoRest /\ MergeRest /\ GamesRest /\ AppRest /\ SetRest /\ DropRest /\ LifeRest /\ OauthRest

GqlNext ==
    \/ ReqOnly /\ GqlCall
    \/ ReqOnly /\ GqlRequest({})
    \/ ReqOnly /\ \E status \in Statuses : ResponseAnswer(status)
    \/ ReqOnly /\ \E error \in RequestErrors : ErrorAnswer(error)
    \/ ReqOnly /\ ReadDone
    \/ ReqOnly /\ BackoffEnd
    \/ ReqOnly /\ GqlAfterRequest(Batches)
    \/ ReqOnly /\ GqlSleepDone

SpecGql == InitGql /\ [][GqlNext]_vars

\* The maintenance task under any sequence of inventory fetches.
InitMaintenance ==
    MaintenanceInit /\ PoolRest /\ ConnRest /\ MainRest /\ InvRest /\ AuthRest /\ WatchRest
        /\ ReqRest /\ AlgoRest /\ MergeRest /\ GamesRest /\ AppRest /\ SetRest /\ DropRest /\ LifeRest /\ OauthRest

MaintenanceNext ==
    \/ MntOnly /\ \E switch_triggers \in SUBSET Instants : FetchInventoryEnd(switch_triggers)
    \/ MntOnly /\ MaintenanceRun
    \/ MntOnly /\ MntTick

SpecMaintenance == InitMaintenance /\ [][MaintenanceNext]_vars

\* The main loop with the priority list [A, B], nobody selecting a channel
\* in the list, while the algorithm is changed in the settings tab.
InitAlgo ==
    AlgoInit /\ PoolRest /\ ConnRest /\ InvRest /\ AuthRest /\ WatchRest /\ ReqRest /\ MntRest
        /\ MergeRest /\ GamesRest /\ AppRest /\ SetRest /\ DropRest /\ LifeRest /\ OauthRest

AlgoNext ==
    \/ MainOnly /\ MainWait
    \/ MainOnly /\ ProcessIdle
    \/ MainOnly /\ ProcessGamesUpdate
    \/ MainOnly /\ ProcessChannelsCleanup
    \/ MainOnly /\ \E live \in [DirIds -> Games \cup {Offline}] : ProcessChannelsFetch(live)
    \/ MainOnly /\ ProcessChannelSwitch(NoChannel.id)
    \/ MainOnly /\ ProcessExit
    \/ MainOnly /\ \E s \in RequestedStates \ {"INVENTORY_FETCH"} : RequestState(s)
    \/ MainOnly /\ \E id \in ChannelIds, st \in Streams : ChannelUpdate(id, st)
    \/ AlgoOnly /\ \E a \in Algorithms : UpdatePriorityAlgorithm(a)

SpecAlgo == InitAlgo /\ [][AlgoNext]_vars

\* _merge_data called once with any two trees.
InitMerge ==
    MergeInit /\ PoolRest /\ ConnRest /\ MainRest /\ InvRest /\ AuthRest /\ WatchRest
        /\ ReqRest /\ MntRest /\ AlgoRest /\ GamesRest /\ AppRest /\ SetRest /\ DropRest /\ LifeRest /\ OauthRest

MergeNext ==
    \/ MergeOnly /\ \E secondary_data \in JsonMaps : MergeCall(secondary_data)

SpecMerge == InitMerge /\ [][MergeNext]_vars

\* GAMES_UPDATE processed once, at any instant, under any algorithm.
InitGames ==
    GamesInit /\ PoolRest /\ ConnRest /\ InvRest /\ AuthRest /\ WatchRest /\ ReqRest
        /\ MntRest /\ MergeRest /\ AppRest /\ SetRest /\ DropRest /\ LifeRest /\ OauthRest

GamesNext ==
    \/ GamesOnly /\ \E reads \in ClockReads(gamesNow, Len(FilterCampaigns(inventory, gamesNow))) :
                        ProcessGamesUpdateTimed(reads)
    \/ GamesOnly /\ GamesTick
    \/ GamesOnly /\ (\E a \in AllAlgorithms : UpdatePriorityAlgorithm(a))
                 /\ UNCHANGED <<mainVars, gamesVars>>

SpecGames == InitGames /\ [][GamesNext]_vars

AppOnly == UNCHANGED <<poolVars, connVars, mainVars, invVars, authVars, watchVars, reqVars,
                        mntVars, algoVars, mergeVars, gamesVars, setVars, dropVars, lifeVars, oauthVars>>

SetOnly == UNCHANGED <<poolVars, connVars, mainVars, invVars, authVars, watchVars, reqVars,
                        mntVars, algoVars, mergeVars, gamesVars, appVars, dropVars, lifeVars, oauthVars>>

\* Instances of the program started at the same time on one machine.
InitApp ==
    AppInit /\ PoolRest /\ ConnRest /\ MainRest /\ InvRest /\ AuthRest /\ WatchRest
        /\ ReqRest /\ MntRest /\ AlgoRest /\ MergeRest /\ GamesRest /\ SetRest /\ DropRest /\ LifeRest /\ OauthRest

AppNext ==
    \/ AppOnly /\ \E i \in Instances : RunAppLock(i)
    \/ AppOnly /\ \E i \in Instances : \E raised \in BOOLEAN : MainSettings(i, raised)
    \/ AppOnly /\ \E i \in Instances : \E exit_status \in {0, 1} : MainRun(i, exit_status)
    \/ AppOnly /\ \E i \in Instances : MainAbort(i)
    \/ AppOnly /\ \E i \in Instances : RunAppFinally(i)
    \/ AppOnly /\ \E i \in Instances : Launch(i)

SpecApp == InitApp /\ [][AppNext]_vars

\* Settings loaded from any settings file under any environment, saved and
\* loaded again.
InitSettings ==
    SettingsInit /\ PoolRest /\ ConnRest /\ MainRest /\ InvRest /\ AuthRest /\ WatchRest
        /\ ReqRest /\ MntRest /\ AlgoRest /\ MergeRest /\ GamesRest /\ AppRest /\ DropRest /\ LifeRest /\ OauthRest

SettingsNext ==
    \/ SetOnly /\ SettingsLoad
    \/ SetOnly /\ SettingsSave

SpecSettings == InitSettings /\ [][SettingsNext]_vars

DropOnly == UNCHANGED <<poolVars, connVars, mainVars, invVars, authVars, watchVars, reqVars,
                         mntVars, algoVars, mergeVars, gamesVars, appVars, setVars, lifeVars, oauthVars>>

\* One watch cycle after another, with drop-progress and drop-claim messages
\* arriving at any point.
InitDrops ==
    DropsInit /\ PoolRest /\ ConnRest /\ MainRest /\ InvRest /\ AuthRest /\ WatchRest
        /\ ReqRest /\ MntRest /\ AlgoRest /\ MergeRest /\ GamesRest /\ AppRest /\ SetRest /\ LifeRest /\ OauthRest

DropsNext ==
    \/ DropOnly /\ InstallFuture
    \/ DropOnly /\ DropTick
    \/ DropOnly /\ WaitTimesOut
    \/ DropOnly /\ WaitRaises
    \/ DropOnly /\ WaitReturns
    \/ DropOnly /\ \E answer \in CurrentDropAnswers : CurrentDropAnswer(answer)
    \/ DropOnly /\ UseActiveDrop
    \/ DropOnly /\ CycleEnds
    \/ DropOnly /\ \E expected \in BOOLEAN : DropProgress(expected)
    \/ DropOnly /\ \E known \in BOOLEAN : DropClaim(known)
    \/ DropOnly /\ ClaimDrop
    \/ DropOnly /\ \E answer \in PollAnswers : PollCurrentDrop(answer)
    \/ DropOnly /\ \E can_earn \in BOOLEAN : ClaimDecide(can_earn)
    \/ DropOnly /\ ClaimReturns

SpecDrops == InitDrops /\ [][DropsNext]_vars

LifeOnly == UNCHANGED <<poolVars, connVars, mainVars, invVars, authVars, watchVars, reqVars,
                         mntVars, algoVars, mergeVars, gamesVars, appVars, setVars, dropVars, oauthVars>>

\* One Websocket under the calls its pool makes: start_nowait on creation,
\* start, stop.
InitLife ==
    LifeInit /\ PoolRest /\ ConnRest /\ MainRest /\ InvRest /\ AuthRest /\ WatchRest
        /\ ReqRest /\ MntRest /\ AlgoRest /\ MergeRest /\ GamesRest /\ AppRest /\ SetRest
        /\ DropRest /\ OauthRest

LifeNext ==
    \/ LifeOnly /\ StartNowait
    \/ LifeOnly /\ StartEnter
    \/ LifeOnly /\ StartReturns
    \/ LifeOnly /\ HandleBegins
    \/ LifeOnly /\ HandleConnects
    \/ LifeOnly /\ BackoffBreaks
    \/ LifeOnly /\ \E kind \in ClosedKinds : RecvEndsClosed(kind)
    \/ LifeOnly /\ LoopEndsOther
    \/ LifeOnly /\ StopEnter
    \/ LifeOnly /\ StopClosed
    \/ LifeOnly /\ StopWaitEnds

SpecLife == InitLife /\ [][LifeNext]_vars

OauthOnly == UNCHANGED <<poolVars, connVars, mainVars, invVars, authVars, watchVars, reqVars,
                          mntVars, algoVars, mergeVars, gamesVars, appVars, setVars, dropVars,
                          lifeVars>>

\* One call of _oauth_login while the clock runs.
InitOauth ==
    OauthInit /\ PoolRest /\ ConnRest /\ MainRest /\ InvRest /\ AuthRest /\ WatchRest
        /\ ReqRest /\ MntRest /\ AlgoRest /\ MergeRest /\ GamesRest /\ AppRest /\ SetRest
        /\ DropRest /\ LifeRest

OauthNext ==
    \/ OauthOnly /\ \E answered \in BOOLEAN : DevicePost(answered)
    \/ OauthOnly /\ AskEnterCode
    \/ OauthOnly /\ \E status \in {200, 400} : TokenPoll(status)
    \/ OauthOnly /\ OauthCall
    \/ OauthOnly /\ OauthTick

SpecOauth == InitOauth /\ [][OauthNext]_vars

====
